---- MODULE Spec2Model ----
(***************************************************************************)
(* State-machine model of mdcx's resilient HTTP client                     *)
(* (src/mdcx/web_async.py, class AsyncWebClient): request() with its retry *)
(* loop, Cloudflare challenge detection, the per-host bypass coordinator   *)
(* (_try_bypass_cloudflare) with its mirror and /html endpoints, the       *)
(* per-host lock and semaphore, and asyncio task cancellation.             *)
(*                                                                         *)
(* Every Task is one call of request() running as an asyncio task.  A pc   *)
(* value names the await at which the coroutine is suspended; one action   *)
(* runs the code from one await to the next.                               *)
(***************************************************************************)
EXTENDS Integers, Sequences, FiniteSets, TLC

\* ------------------------------------------------------------------ bounds
\* the tasks of the largest run, the largest retry count of a lone call, and the
\* largest retry count when several calls run side by side
NumTasks == 3
MaxRetry == 3
MaxRetryTogether == 1

Tasks == 1..NumTasks
Hosts == {"h1", "h2"}
Methods == {"GET", "POST"}
\* the methods of the calls followed one by one
AllMethods == Methods \cup {"HEAD"}
\* status codes a server may answer with
Statuses == {200, 301, 302, 403, 404, 408, 429, 500, 502, 503, 504}

\* ------------------------------------------------------- program constants
cf_bypass_min_interval == 2
cf_bypass_retries == 2
cf_mirror_max_redirects == 8
cf_request_bypass_rounds == 2
cf_retry_max_concurrent_per_host == 2
\* _retry_sleep_jitter (0.4 s), in tenths of a second
retry_sleep_jitter == 4

\* Python's None where a status code is expected, and where a task is expected
NoStatus == 0
NoTask == 0
\* _cf_last_bypass_attempt_at.get(host, 0.0) <= 0: no bypass attempt yet
Never == -1

\* ---------------------------------------------------------------- values
\* A response as the transport hands it over: the status, whether a Location
\* header is present, whether content-type is text/html (or absent), which
\* challenge markers the first 8 KiB of the body hold ("none", "weak": one of
\* the four textual markers only, "strong": cf-chl or cdn-cgi/challenge-platform),
\* whether the server header contains "cloudflare" and whether cf-ray is present.
AllResponses ==
    [status : Statuses, location : BOOLEAN, html : BOOLEAN,
     marker : {"none", "weak", "strong"}, server_cf : BOOLEAN, cf_ray : BOOLEAN]

\* The replies the servers of the model send: for every status an ordinary page,
\* a Cloudflare page with a textual marker and a cf-ray header, and a page with a
\* cf-chl marker and no Cloudflare header; Location only on 301 and 302.
Responses ==
    { r \in AllResponses :
        /\ (r.location => r.status \in {301, 302})
        /\ r.html /\ ~r.server_cf
        /\ (r.cf_ray <=> r.marker = "weak") }

\* exceptions curl_session.request can raise
Exceptions == {"Timeout", "ConnectionError", "RequestException", "Exception"}

\* error_msg values: k is the text's shape, s the status code it names (0: none)
Msg(k, s) == [k |-> k, s |-> s]
EmptyMsg == Msg("", 0)

\* what request() and the coordinator return: (response, error)
NoResp == [status |-> 0, location |-> FALSE, via |-> "none"]
Resp(r, via) == [status |-> r.status, location |-> r.location, via |-> via]

\* request() returns: its loop counter is gone
Dead(r) ==
    [r EXCEPT !.attempt = 0, !.jitter = 0]

\* ------------------------------------------------------- pure functions
\* a status list that leaves out 408
IsRetryableStatusCodeNo408(status_code) ==
    status_code \in {500, 502, 503, 403, 429, 504}

IsRetryableStatusCode(status_code) ==
    status_code \in {500, 502, 503, 403, 408, 429, 504}

IsRedirectResponse(r) ==
    /\ r.status \in {301, 302, 303, 307, 308}
    /\ r.location

\* a rule 1 that looks at the server header only
IsCfChallengeResponseServerOnly(r) ==
    LET body_has(m) == r.html /\ m
        has_marker == body_has(r.marker \in {"weak", "strong"})
        strong == body_has(r.marker = "strong")
    IN  \/ (r.status \in {403, 429, 503} /\ r.server_cf /\ has_marker)
        \/ (has_marker /\ strong)

IsCfChallengeResponse(r) ==
    LET body_has(m) == r.html /\ m
        has_marker == body_has(r.marker \in {"weak", "strong"})
        strong == body_has(r.marker = "strong")
    IN  \/ (r.status \in {403, 429, 503} /\ (r.server_cf \/ r.cf_ray) /\ has_marker)
        \/ (has_marker /\ strong)

\* re.match(r"^<prefix>\s+(\d{3})\b", error): the error must START with the prefix
ExtractHttpStatusFromBypassError(error, prefix) ==
    IF prefix = "mirror HTTP" /\ error.k = "mirror HTTP" THEN error.s
    ELSE IF prefix = "HTTP" /\ error.k \in {"HTTP", "HTTP bypass"} THEN error.s
    ELSE NoStatus

\* an extraction that knows the two anchored prefixes only
ExtractTerminalBypassStatusAnchoredOnly(error) ==
    IF error.k = "" THEN NoStatus
    ELSE IF ExtractHttpStatusFromBypassError(error, "mirror HTTP") # NoStatus
         THEN ExtractHttpStatusFromBypassError(error, "mirror HTTP")
    ELSE ExtractHttpStatusFromBypassError(error, "HTTP")

\* re.search(r"终态 HTTP (\d{3})") first, then the two anchored prefixes
ExtractTerminalBypassStatus(error) ==
    IF error.k = "" THEN NoStatus
    ELSE IF error.k = "mirror terminal" THEN error.s
    ELSE IF ExtractHttpStatusFromBypassError(error, "mirror HTTP") # NoStatus
         THEN ExtractHttpStatusFromBypassError(error, "mirror HTTP")
    ELSE ExtractHttpStatusFromBypassError(error, "HTTP")

IsMirrorCfChallengeError(error) ==
    error.k = "mirror challenge"

\* what random.uniform(0.0, _retry_sleep_jitter) can return, in tenths of a
\* second: the least value, the middle one and the greatest
Jitters == {0, retry_sleep_jitter \div 2, retry_sleep_jitter}

\* a backoff of two seconds whatever the attempt
CalcRetrySleepSecondsFlat(attempt, after_cf_bypass, jitter) ==
    IF after_cf_bypass THEN 12 + jitter ELSE 20 + jitter

\* base_delay + jitter, in tenths of a second: 1.2 s after a bypass, else
\* max(attempt * 3 + 2, 0) s
CalcRetrySleepSeconds(attempt, after_cf_bypass, jitter) ==
    IF after_cf_bypass THEN 12 + jitter
    ELSE (IF attempt * 3 + 2 > 0 THEN attempt * 3 + 2 ELSE 0) * 10 + jitter

\* ------------------------------------------------------------------ state
VARIABLES
    retry_count,                \* self.retry, read by request() as retry_count
    cf_bypass_enabled,          \* enable_cf_bypass and self._cf_bypass_enabled
    cf_host_locks,              \* host -> the task holding the host's asyncio.Lock
    cf_force_refresh_locks,     \* host -> the task holding the force-refresh lock
    cf_host_retry_semaphores,   \* host -> the tasks holding a slot of the semaphore
    cf_host_challenge_hits,     \* host -> consecutive challenge hits
    cf_last_bypass_attempt_age, \* host -> seconds since the last bypass attempt
                                \*         began (capped at the minimum interval)
    task                        \* task -> the locals of its request() call

\* The state of the other components, each explored by a specification of its own.
VARIABLES
    classify,                   \* one call of _is_cf_challenge_response
    group,                      \* one GatherGroup and the coroutines added to it
    fanout,                     \* one call of FileScraper._call_crawlers
    record,                     \* one record going through a site's post_process
    scrape,                     \* the tasks of Scraper._process_one_file on one number
    detail,                     \* one call of DmmCrawler._detail
    refine,                     \* one call of get_dmm_trailer
    softpage,                   \* one call of MissavCrawler._parse_detail_page
    route,                      \* one call of MissavCrawler._generate_search_url
    download,                   \* one call of AsyncWebClient.download
    sod,                        \* one record in the SOD branch of post_process
    volume,                     \* one call of AvbaseCrawler._parse_runtime
    mirror,                     \* one call of AsyncWebClient._call_bypass_mirror
    bypass_log                  \* the calls one call of _try_bypass_cloudflare made

webvars == <<retry_count, cf_bypass_enabled, cf_host_locks, cf_force_refresh_locks,
             cf_host_retry_semaphores, cf_host_challenge_hits,
             cf_last_bypass_attempt_age, task>>
earlier == <<classify, group, fanout, record, scrape, detail>>
later == <<refine, softpage, route, download, sod, volume, mirror, bypass_log>>
notweb == <<earlier, later>>
vars == <<webvars, notweb>>
notclassify == <<webvars, group, fanout, record, scrape, detail, later>>
notgroup == <<webvars, classify, fanout, record, scrape, detail, later>>
notfanout == <<webvars, classify, group, record, scrape, detail, later>>
notrecord == <<webvars, classify, group, fanout, scrape, detail, later>>
notscrape == <<webvars, classify, group, fanout, record, detail, later>>
notdetail == <<webvars, classify, group, fanout, record, scrape, later>>
notrefine == <<webvars, earlier, softpage, route, download, sod, volume, mirror, bypass_log>>
notsoftpage == <<webvars, earlier, refine, route, download, sod, volume, mirror, bypass_log>>
notroute == <<webvars, earlier, refine, softpage, download, sod, volume, mirror, bypass_log>>
notdownload == <<webvars, earlier, refine, softpage, route, sod, volume, mirror, bypass_log>>
notsod == <<webvars, earlier, refine, softpage, route, download, volume, mirror, bypass_log>>
notvolume == <<webvars, earlier, refine, softpage, route, download, sod, mirror, bypass_log>>
notmirror == <<webvars, earlier, refine, softpage, route, download, sod, volume, bypass_log>>
notlog == <<earlier, refine, softpage, route, download, sod, volume, mirror>>

\* a component that takes no part in the specification at hand
Unused == [pc |-> "unused"]

EarlierUnused ==
    /\ classify = Unused
    /\ group = Unused
    /\ fanout = Unused
    /\ record = Unused
    /\ scrape = Unused
    /\ detail = Unused

LaterUnused ==
    /\ refine = Unused
    /\ softpage = Unused
    /\ route = Unused
    /\ download = Unused
    /\ sod = Unused
    /\ volume = Unused
    /\ mirror = Unused
    /\ bypass_log = Unused

\* the awaits inside the bypass coordinator, all under the host lock
CoordinatorPcs == {"cooldown", "mirror", "html", "bypass_sleep"}
\* every await of request(): a task can be cancelled at any of them
AwaitPcs == {"limiter", "semaphore", "request", "lock", "sleep"} \cup CoordinatorPcs
EndPcs == {"done", "cancelled"}

\* The locals of one request() call and of the coordinator call inside it, its
\* return value (ret_resp, ret_error with error_msg), and what it has done so
\* far: the requests sent to the target (http_calls), the limiter tokens taken
\* (acquire_count), the sleeps between attempts (sleep_calls), the calls of
\* _try_bypass_cloudflare (bypass_calls) and of _call_bypass_mirror (mirror_calls),
\* the calls of _call_bypass_mirror that gave a response (mirror_ok) and the
\* calls of _try_bypass_cloudflare that returned a response and "" (bypass_ok).
\* bypass_resp is the bypass_response of the latest coordinator call, kept for
\* as long as resp is.  jitter is what random.uniform returns for the sleep
\* that follows the attempt under way, 0 when no sleep can follow it.
\* resp is the response of the latest attempt, kept until the code no longer
\* reads it, and resp_challenge the condition of line 729 on it.
NewTask(host, method, allow_redirects) ==
    [pc |-> "idle", host |-> host, method |-> method,
     allow_redirects |-> allow_redirects,
     attempt |-> 0, bypass_round |-> 0, retry |-> FALSE, error_msg |-> EmptyMsg,
     i |-> 0, bypass_cache |-> FALSE, refresh |-> FALSE, html_bypass_cache |-> FALSE,
     resp |-> NoResp, resp_challenge |-> FALSE, bypass_resp |-> NoResp,
     jitter |-> 0,
     ret_resp |-> NoResp, ret_error |-> "", cancelled_at |-> "",
     http_calls |-> 0, acquire_count |-> 0, sleep_calls |-> << >>,
     bypass_calls |-> 0, mirror_calls |-> 0, mirror_ok |-> 0, bypass_ok |-> 0]

\* a task of the model that calls nothing in this run
Absent == [NewTask("h1", "GET", TRUE) EXCEPT !.pc = "absent"]

\* The runs explored: one call with any arguments and any client; two calls with
\* the default arguments (GET, allow_redirects) on a client with a bypass service;
\* every task calling with the default arguments on a client without one.
Runs ==
    {[retry_count |-> n, cf_bypass_enabled |-> e,
      task |-> [t \in Tasks |-> IF t = 1 THEN NewTask(h, m, a) ELSE Absent]] :
        n \in 0..MaxRetry, e \in BOOLEAN, h \in Hosts, m \in Methods, a \in BOOLEAN}
    \cup
    {[retry_count |-> n, cf_bypass_enabled |-> TRUE,
      task |-> [t \in Tasks |-> IF t <= 2 THEN NewTask(hs[t], "GET", TRUE) ELSE Absent]] :
        n \in 1..MaxRetryTogether, hs \in [1..2 -> Hosts]}
    \cup
    {[retry_count |-> n, cf_bypass_enabled |-> FALSE,
      task |-> [t \in Tasks |-> NewTask(hs[t], "GET", TRUE)]] :
        n \in 1..MaxRetryTogether, hs \in [Tasks -> Hosts]}

Init ==
    /\ \E run \in Runs :
          /\ retry_count = run.retry_count
          /\ cf_bypass_enabled = run.cf_bypass_enabled
          /\ task = run.task
    /\ cf_host_locks = [h \in Hosts |-> NoTask]
    /\ cf_force_refresh_locks = [h \in Hosts |-> NoTask]
    /\ cf_host_retry_semaphores = [h \in Hosts |-> {}]
    /\ cf_host_challenge_hits = [h \in Hosts |-> 0]
    /\ cf_last_bypass_attempt_age = [h \in Hosts |-> Never]
    /\ classify = Unused
    /\ group = Unused
    /\ fanout = Unused
    /\ record = Unused
    /\ scrape = Unused
    /\ detail = Unused
    /\ LaterUnused

\* ------------------------------------------------ request(): the loop's tail
\* a return that hands back error_msg as it is, empty or not
ReturnRaw(r, resp, error) ==
    [Dead(r) EXCEPT !.pc = "done", !.ret_resp = resp,
                    !.ret_error = IF error = "failed" /\ r.error_msg = EmptyMsg
                                  THEN "" ELSE error,
                    !.error_msg = IF error = "failed" THEN r.error_msg ELSE EmptyMsg]

\* return resp, "" / return None, "<method> <url> 失败: <error_msg>" /
\* return None, "<method> <url> 未知错误: <e>"
Return(r, resp, error) ==
    [Dead(r) EXCEPT !.pc = "done", !.ret_resp = resp, !.ret_error = error,
                    !.error_msg = IF error = "failed" THEN r.error_msg ELSE EmptyMsg]

\* a loop tail that goes on for as long as the outcome is retryable
AfterAttemptNoLimit(r) ==
    IF ~r.retry THEN Return(r, NoResp, "failed")
    ELSE [r EXCEPT !.pc = "sleep",
                   !.sleep_calls = Append(@, CalcRetrySleepSeconds(r.attempt, FALSE, r.jitter))]

\* lines 810-819: break unless retry; sleep before the next attempt; fall out of
\* the loop after the last attempt
AfterAttempt(r) ==
    IF ~r.retry THEN Return(r, NoResp, "failed")
    ELSE IF r.attempt < retry_count - 1
         THEN [r EXCEPT !.pc = "sleep",
                        !.sleep_calls = Append(@, CalcRetrySleepSeconds(r.attempt, FALSE, r.jitter))]
    ELSE Return(r, NoResp, "failed")

\* a caller that does not count the coordinator rounds
AfterBypassNoCount(r0, bypass_response, bypass_error) ==
    LET r == [r0 EXCEPT !.pc = "request", !.bypass_resp = bypass_response,
                        !.bypass_ok = IF bypass_response # NoResp THEN @ + 1 ELSE @] IN
    IF bypass_response # NoResp
    THEN IF /\ bypass_response.status >= 300
            /\ ~(bypass_response.status = 302 /\ bypass_response.location)
         THEN AfterAttempt([r EXCEPT
                  !.error_msg = Msg("HTTP bypass", bypass_response.status),
                  !.retry = /\ r.attempt < retry_count - 1
                            /\ IsRetryableStatusCode(bypass_response.status)])
         ELSE Return(r, bypass_response, "")
    ELSE LET terminal_status == ExtractTerminalBypassStatus(bypass_error) IN
         AfterAttempt([r EXCEPT
             !.error_msg = Msg("bypass failed: " \o bypass_error.k, bypass_error.s),
             !.retry = IF /\ terminal_status # NoStatus
                          /\ ~IsRetryableStatusCode(terminal_status)
                       THEN FALSE
                       ELSE /\ r.attempt < retry_count - 1
                            /\ r.bypass_round < cf_request_bypass_rounds])

\* a caller that takes a bypass response for a hint and asks the target again
AfterBypassRetrying(r0, bypass_response, bypass_error) ==
    LET r == [r0 EXCEPT !.bypass_round = @ + 1, !.pc = "request",
                        !.bypass_resp = bypass_response,
                        !.bypass_ok = IF bypass_response # NoResp THEN @ + 1 ELSE @] IN
    IF bypass_response # NoResp
    THEN AfterAttempt([r EXCEPT
             !.error_msg = Msg("HTTP bypass", bypass_response.status),
             !.retry = r.attempt < retry_count - 1])
    ELSE LET terminal_status == ExtractTerminalBypassStatus(bypass_error) IN
         AfterAttempt([r EXCEPT
             !.error_msg = Msg("bypass failed: " \o bypass_error.k, bypass_error.s),
             !.retry = IF /\ terminal_status # NoStatus
                          /\ ~IsRetryableStatusCode(terminal_status)
                       THEN FALSE
                       ELSE /\ r.attempt < retry_count - 1
                            /\ r.bypass_round < cf_request_bypass_rounds])

\* lines 750-787: what request() does with the coordinator's (response, error)
AfterBypass(r0, bypass_response, bypass_error) ==
    LET r == [r0 EXCEPT !.bypass_round = @ + 1, !.pc = "request",
                        !.bypass_resp = bypass_response,
                        !.bypass_ok = IF bypass_response # NoResp THEN @ + 1 ELSE @] IN
    IF bypass_response # NoResp
    THEN IF /\ bypass_response.status >= 300
            /\ ~(bypass_response.status = 302 /\ bypass_response.location)
         THEN AfterAttempt([r EXCEPT
                  !.error_msg = Msg("HTTP bypass", bypass_response.status),
                  !.retry = /\ r.attempt < retry_count - 1
                            /\ IsRetryableStatusCode(bypass_response.status)])
         ELSE Return(r, bypass_response, "")
    ELSE LET terminal_status == ExtractTerminalBypassStatus(bypass_error) IN
         AfterAttempt([r EXCEPT
             !.error_msg = Msg("bypass failed: " \o bypass_error.k, bypass_error.s),
             !.retry = IF /\ terminal_status # NoStatus
                          /\ ~IsRetryableStatusCode(terminal_status)
                       THEN FALSE
                       ELSE /\ r.attempt < retry_count - 1
                            /\ r.bypass_round < cf_request_bypass_rounds])

\* ------------------------------------------- the bypass coordinator's steps
\* the coordinator's locals die when it returns
LeaveCoordinator(r) ==
    [r EXCEPT !.i = 0, !.bypass_cache = FALSE, !.refresh = FALSE,
              !.html_bypass_cache = FALSE]

\* _call_bypass_mirror is called; refresh: under the force-refresh lock
CallBypassMirror(r, bypass_cache, refresh) ==
    [r EXCEPT !.pc = "mirror", !.bypass_cache = bypass_cache, !.refresh = refresh,
              !.html_bypass_cache = FALSE, !.mirror_calls = @ + 1]

\* lines 634-642: break, sleep before the next iteration, or fall out of the loop
CoordinatorLoopEnd(r, error, can_retry) ==
    IF can_retry /\ r.i < cf_bypass_retries - 1
    THEN [r EXCEPT !.pc = "bypass_sleep", !.bypass_cache = FALSE, !.refresh = FALSE,
                   !.html_bypass_cache = FALSE]
    ELSE AfterBypass(LeaveCoordinator(r), NoResp, error)

\* a coordinator that falls back to /html for every method
AfterMirrorFailureAnyMethod(r, mirror_error, html_bypass_cache) ==
    LET mirror_status == ExtractHttpStatusFromBypassError(mirror_error, "mirror HTTP")
        skip_html_fallback ==
            mirror_status # NoStatus /\ ~IsRetryableStatusCode(mirror_status)
    IN  IF skip_html_fallback
        THEN CoordinatorLoopEnd(r, Msg("mirror terminal", mirror_status), FALSE)
        ELSE [r EXCEPT !.pc = "html", !.html_bypass_cache = html_bypass_cache,
                       !.bypass_cache = FALSE, !.refresh = FALSE]

\* lines 607-632: after a failed mirror call
AfterMirrorFailure(r, mirror_error, html_bypass_cache) ==
    LET mirror_status == ExtractHttpStatusFromBypassError(mirror_error, "mirror HTTP")
        skip_html_fallback ==
            mirror_status # NoStatus /\ ~IsRetryableStatusCode(mirror_status)
    IN  IF skip_html_fallback
        THEN CoordinatorLoopEnd(r, Msg("mirror terminal", mirror_status), FALSE)
        ELSE IF r.method = "GET"
        THEN [r EXCEPT !.pc = "html", !.html_bypass_cache = html_bypass_cache,
                       !.bypass_cache = FALSE, !.refresh = FALSE]
        ELSE CoordinatorLoopEnd(r, Msg("mirror failed, no /html for method", 0),
                                ~(mirror_status # NoStatus
                                  /\ ~IsRetryableStatusCode(mirror_status)))

\* a coordinator that answers a mirror challenge with the /html fallback at once
AfterMirrorNoRefresh(r, bypass_response, mirror_error) ==
    IF bypass_response # NoResp
    THEN AfterBypass(LeaveCoordinator([r EXCEPT !.mirror_ok = @ + 1]),
                     bypass_response, EmptyMsg)
    ELSE AfterMirrorFailure(r, mirror_error, r.i > 0)

\* lines 582-605: a mirror call returned (bypass_response, mirror_error)
AfterMirror(r, bypass_response, mirror_error) ==
    IF bypass_response # NoResp
    THEN AfterBypass(LeaveCoordinator([r EXCEPT !.mirror_ok = @ + 1]),
                     bypass_response, EmptyMsg)
    ELSE IF r.refresh
    THEN AfterMirrorFailure(r, mirror_error, FALSE)
    ELSE IF IsMirrorCfChallengeError(mirror_error) /\ ~(r.i > 0)
    THEN CallBypassMirror(r, TRUE, TRUE)
    ELSE AfterMirrorFailure(r, mirror_error, r.i > 0)

\* the state shared between the tasks, after task t moved from r to n
HostLocks(t, n) ==
    [cf_host_locks EXCEPT ![n.host] =
        IF n.pc \in CoordinatorPcs THEN t ELSE IF @ = t THEN NoTask ELSE @]
ForceRefreshLocks(t, n) ==
    [cf_force_refresh_locks EXCEPT ![n.host] =
        IF n.pc = "mirror" /\ n.refresh THEN t ELSE IF @ = t THEN NoTask ELSE @]
\* a response came back from the coordinator: the hit counter is reset
ChallengeHitsAfterBypass(r, got_response) ==
    IF got_response THEN [cf_host_challenge_hits EXCEPT ![r.host] = 0]
    ELSE cf_host_challenge_hits

\* a hit counter that a successful attempt leaves alone
ChallengeHitsAfterAttemptNoReset(host, challenge, success) ==
    IF challenge THEN [cf_host_challenge_hits EXCEPT ![host] = @ + 1]
    ELSE cf_host_challenge_hits

\* lines 731 and 795-796: the hit counter after an attempt's response
ChallengeHitsAfterAttempt(host, challenge, success) ==
    IF challenge THEN [cf_host_challenge_hits EXCEPT ![host] = @ + 1]
    ELSE IF success THEN [cf_host_challenge_hits EXCEPT ![host] = 0]
    ELSE cf_host_challenge_hits

\* ------------------------------------------------------------------ actions
\* request() is called: lines 675-693
Start(t) ==
    /\ task[t].pc = "idle"
    /\ \E url_ok \in BOOLEAN :
          task' = [task EXCEPT ![t] =
              IF ~url_ok THEN Return(@, NoResp, "unknown")
              ELSE IF retry_count <= 0 THEN Return(@, NoResp, "failed")
              ELSE [@ EXCEPT !.pc = "limiter"]]
    /\ UNCHANGED <<retry_count, cf_bypass_enabled, cf_host_locks, cf_force_refresh_locks,
                   cf_host_retry_semaphores, cf_host_challenge_hits,
                   cf_last_bypass_attempt_age>>

\* a call that takes a token before its first attempt only
LimiterAcquireFirstOnly(t) ==
    /\ task[t].pc = "limiter"
    /\ \E jitter \in IF task[t].attempt < retry_count - 1 THEN Jitters ELSE {0} :
          task' = [task EXCEPT ![t] = [@ EXCEPT !.pc = "semaphore",
                                                !.acquire_count =
                                                    IF task[t].attempt = 0 THEN @ + 1 ELSE @,
                                                !.jitter = jitter]]
    /\ UNCHANGED <<retry_count, cf_bypass_enabled, cf_host_locks, cf_force_refresh_locks,
                   cf_host_retry_semaphores, cf_host_challenge_hits,
                   cf_last_bypass_attempt_age>>

\* await limiter.acquire() returns: line 696
LimiterAcquire(t) ==
    /\ task[t].pc = "limiter"
    /\ \E jitter \in IF task[t].attempt < retry_count - 1 THEN Jitters ELSE {0} :
          task' = [task EXCEPT ![t] = [@ EXCEPT !.pc = "semaphore",
                                                !.acquire_count = @ + 1,
                                                !.jitter = jitter]]
    /\ UNCHANGED <<retry_count, cf_bypass_enabled, cf_host_locks, cf_force_refresh_locks,
                   cf_host_retry_semaphores, cf_host_challenge_hits,
                   cf_last_bypass_attempt_age>>

\* one semaphore for the requests to all hosts
SemaphoreAcquireShared(t) ==
    LET h == task[t].host
        held == UNION {cf_host_retry_semaphores[g] : g \in Hosts} IN
    /\ task[t].pc = "semaphore"
    /\ Cardinality(held) < cf_retry_max_concurrent_per_host
    /\ cf_host_retry_semaphores' = [cf_host_retry_semaphores EXCEPT ![h] = @ \cup {t}]
    /\ task' = [task EXCEPT ![t] = [@ EXCEPT !.pc = "request", !.http_calls = @ + 1]]
    /\ UNCHANGED <<retry_count, cf_bypass_enabled, cf_host_locks, cf_force_refresh_locks,
                   cf_host_challenge_hits, cf_last_bypass_attempt_age>>

\* async with host_retry_semaphore: a slot is taken and the request sent: 700-713
SemaphoreAcquire(t) ==
    LET h == task[t].host IN
    /\ task[t].pc = "semaphore"
    /\ Cardinality(cf_host_retry_semaphores[h]) < cf_retry_max_concurrent_per_host
    /\ cf_host_retry_semaphores' = [cf_host_retry_semaphores EXCEPT ![h] = @ \cup {t}]
    /\ task' = [task EXCEPT ![t] = [@ EXCEPT !.pc = "request", !.http_calls = @ + 1]]
    /\ UNCHANGED <<retry_count, cf_bypass_enabled, cf_host_locks, cf_force_refresh_locks,
                   cf_host_challenge_hits, cf_last_bypass_attempt_age>>

\* curl_session.request raised: lines 798-809
AttemptRaises(t) ==
    LET r == task[t] IN
    /\ r.pc = "request"
    /\ \E e \in Exceptions :
          task' = [task EXCEPT ![t] = AfterAttempt(
              [r EXCEPT !.error_msg = Msg(e, 0), !.retry = (e # "Exception"),
                        !.resp = NoResp, !.resp_challenge = FALSE])]
    /\ cf_host_retry_semaphores' = [cf_host_retry_semaphores EXCEPT ![r.host] = @ \ {t}]
    /\ UNCHANGED <<retry_count, cf_bypass_enabled, cf_host_locks, cf_force_refresh_locks,
                   cf_host_challenge_hits, cf_last_bypass_attempt_age>>

\* curl_session.request returned resp: lines 729-736 and 789-797
AttemptResponds(t) ==
    /\ task[t].pc = "request"
    /\ cf_host_retry_semaphores' =
          [cf_host_retry_semaphores EXCEPT ![task[t].host] = @ \ {t}]
    /\ \E resp \in Responses :
          LET challenge == cf_bypass_enabled /\ IsCfChallengeResponse(resp)
              r == [task[t] EXCEPT !.resp = Resp(resp, "direct"),
                                   !.resp_challenge = challenge]
              success == ~(resp.status >= 300 /\ ~(resp.status = 302 /\ resp.location))
          IN  /\ cf_host_challenge_hits' = ChallengeHitsAfterAttempt(r.host, challenge, success)
              /\ IF challenge
                 THEN task' = [task EXCEPT ![t] =
                         IF r.bypass_round >= cf_request_bypass_rounds
                         THEN AfterAttempt([r EXCEPT
                                  !.error_msg = Msg("challenge persisted", 0),
                                  !.retry = FALSE])
                         ELSE [r EXCEPT !.pc = "lock", !.bypass_calls = @ + 1]]
                 ELSE IF ~success
                 THEN task' = [task EXCEPT ![t] = AfterAttempt(
                         [r EXCEPT !.error_msg = Msg("HTTP", resp.status),
                                   !.retry = IsRetryableStatusCode(resp.status)])]
                 ELSE task' = [task EXCEPT ![t] = Return(r, Resp(resp, "direct"), "")]
    /\ UNCHANGED <<retry_count, cf_bypass_enabled, cf_host_locks, cf_force_refresh_locks,
                   cf_last_bypass_attempt_age>>

\* asyncio.sleep before the next attempt returned: line 818, then the loop's head
SleepReturns(t) ==
    /\ task[t].pc = "sleep"
    /\ task' = [task EXCEPT ![t] = [@ EXCEPT !.pc = "limiter", !.attempt = @ + 1,
                                             !.retry = FALSE, !.error_msg = EmptyMsg,
                                             !.resp = NoResp, !.resp_challenge = FALSE,
                                             !.bypass_resp = NoResp, !.jitter = 0]]
    /\ UNCHANGED <<retry_count, cf_bypass_enabled, cf_host_locks, cf_force_refresh_locks,
                   cf_host_retry_semaphores, cf_host_challenge_hits,
                   cf_last_bypass_attempt_age>>

\* a coordinator entered without waiting for the lock
LockAcquireNoWait(t) ==
    LET h == task[t].host IN
    /\ task[t].pc = "lock"
    /\ cf_host_locks' = [cf_host_locks EXCEPT ![h] = t]
    /\ task' = [task EXCEPT ![t] = [@ EXCEPT !.pc = "cooldown", !.resp = NoResp,
                                             !.resp_challenge = FALSE]]
    /\ UNCHANGED <<retry_count, cf_bypass_enabled, cf_force_refresh_locks,
                   cf_host_retry_semaphores, cf_host_challenge_hits,
                   cf_last_bypass_attempt_age>>

\* _try_bypass_cloudflare: async with lock is entered: lines 542-543
LockAcquire(t) ==
    LET h == task[t].host IN
    /\ task[t].pc = "lock"
    /\ cf_host_locks[h] = NoTask
    /\ cf_host_locks' = [cf_host_locks EXCEPT ![h] = t]
    /\ task' = [task EXCEPT ![t] = [@ EXCEPT !.pc = "cooldown", !.resp = NoResp,
                                             !.resp_challenge = FALSE]]
    /\ UNCHANGED <<retry_count, cf_bypass_enabled, cf_force_refresh_locks,
                   cf_host_retry_semaphores, cf_host_challenge_hits,
                   cf_last_bypass_attempt_age>>

\* a coordinator that hands a waiter the previous caller's recent result
CooldownOverReuse(t) ==
    LET h == task[t].host
        recent == cf_last_bypass_attempt_age[h] # Never /\ cf_host_challenge_hits[h] = 0
        n == AfterBypass(LeaveCoordinator(task[t]),
                         [status |-> 200, location |-> FALSE, via |-> "mirror"], EmptyMsg)
    IN  /\ task[t].pc = "cooldown"
        /\ IF recent
           THEN /\ task' = [task EXCEPT ![t] = n]
                /\ cf_host_locks' = [cf_host_locks EXCEPT ![h] = NoTask]
                /\ UNCHANGED cf_last_bypass_attempt_age
           ELSE /\ \/ cf_last_bypass_attempt_age[h] = Never
                   \/ cf_last_bypass_attempt_age[h] >= cf_bypass_min_interval
                /\ cf_last_bypass_attempt_age' = [cf_last_bypass_attempt_age EXCEPT ![h] = 0]
                /\ task' = [task EXCEPT ![t] = CallBypassMirror([@ EXCEPT !.i = 0], FALSE, FALSE)]
                /\ UNCHANGED cf_host_locks
        /\ UNCHANGED <<retry_count, cf_bypass_enabled, cf_force_refresh_locks,
                       cf_host_retry_semaphores, cf_host_challenge_hits>>

\* a coordinator that does not wait for the interval
CooldownOverNoWait(t) ==
    LET h == task[t].host IN
    /\ task[t].pc = "cooldown"
    /\ cf_last_bypass_attempt_age' = [cf_last_bypass_attempt_age EXCEPT ![h] = 0]
    /\ task' = [task EXCEPT ![t] = CallBypassMirror([@ EXCEPT !.i = 0], FALSE, FALSE)]
    /\ UNCHANGED <<retry_count, cf_bypass_enabled, cf_host_locks, cf_force_refresh_locks,
                   cf_host_retry_semaphores, cf_host_challenge_hits>>

\* a coordinator that answers a caller inside the interval with an error
CooldownOverFailing(t) ==
    LET h == task[t].host
        early == /\ cf_last_bypass_attempt_age[h] # Never
                 /\ cf_last_bypass_attempt_age[h] < cf_bypass_min_interval
        n == AfterBypass(LeaveCoordinator(task[t]), NoResp, Msg("bypass cooldown", 0))
    IN  /\ task[t].pc = "cooldown"
        /\ IF early
           THEN /\ task' = [task EXCEPT ![t] = n]
                /\ cf_host_locks' = [cf_host_locks EXCEPT ![h] = NoTask]
                /\ UNCHANGED cf_last_bypass_attempt_age
           ELSE /\ cf_last_bypass_attempt_age' = [cf_last_bypass_attempt_age EXCEPT ![h] = 0]
                /\ task' = [task EXCEPT ![t] = CallBypassMirror([@ EXCEPT !.i = 0], FALSE, FALSE)]
                /\ UNCHANGED cf_host_locks
        /\ UNCHANGED <<retry_count, cf_bypass_enabled, cf_force_refresh_locks,
                       cf_host_retry_semaphores, cf_host_challenge_hits>>

\* the cooldown loop is left and the first mirror call made: lines 544-581
CooldownOver(t) ==
    LET h == task[t].host IN
    /\ task[t].pc = "cooldown"
    /\ \/ cf_last_bypass_attempt_age[h] = Never
       \/ cf_last_bypass_attempt_age[h] >= cf_bypass_min_interval
    /\ cf_last_bypass_attempt_age' = [cf_last_bypass_attempt_age EXCEPT ![h] = 0]
    /\ task' = [task EXCEPT ![t] = CallBypassMirror([@ EXCEPT !.i = 0], FALSE, FALSE)]
    /\ UNCHANGED <<retry_count, cf_bypass_enabled, cf_host_locks, cf_force_refresh_locks,
                   cf_host_retry_semaphores, cf_host_challenge_hits>>

\* a mirror call that follows every redirect it is given
MirrorReplyNoLimit(allow_redirects, redirect_index, resp) ==
    IF IsCfChallengeResponse(resp)
    THEN [kind |-> "error", error |-> Msg("mirror challenge", 0)]
    ELSE IF resp.status >= 400
    THEN [kind |-> "error", error |-> Msg("mirror HTTP", resp.status)]
    ELSE IF ~allow_redirects \/ ~IsRedirectResponse(resp)
    THEN [kind |-> "response", error |-> EmptyMsg]
    ELSE [kind |-> "redirect", error |-> EmptyMsg]

\* What _call_bypass_mirror makes of the reply to the request numbered
\* redirect_index: lines 446-480 ("response": returned to the coordinator,
\* "error", "redirect": followed with the next request).
MirrorReply(allow_redirects, redirect_index, resp) ==
    IF IsCfChallengeResponse(resp)
    THEN [kind |-> "error", error |-> Msg("mirror challenge", 0)]
    ELSE IF resp.status >= 400
    THEN [kind |-> "error", error |-> Msg("mirror HTTP", resp.status)]
    ELSE IF ~allow_redirects \/ ~IsRedirectResponse(resp)
    THEN [kind |-> "response", error |-> EmptyMsg]
    ELSE IF redirect_index >= cf_mirror_max_redirects
    THEN [kind |-> "error", error |-> Msg("mirror redirect limit", 0)]
    ELSE [kind |-> "redirect", error |-> EmptyMsg]

\* a redirect the bypass service relays
Redirect ==
    [status |-> 302, location |-> TRUE, html |-> TRUE, marker |-> "none",
     server_cf |-> FALSE, cf_ray |-> FALSE]

\* The loop of _call_bypass_mirror (lines 396-480) from request redirect_index
\* on, when the service answers the next `redirects` requests with a redirect
\* and the one after them with `last`: the call's result and the requests sent.
RECURSIVE MirrorLoop(_, _, _, _)
MirrorLoop(allow_redirects, redirect_index, redirects, last) ==
    LET resp == IF redirects > 0 THEN Redirect ELSE last
        m == MirrorReply(allow_redirects, redirect_index, resp)
    IN  IF m.kind = "redirect"
        THEN MirrorLoop(allow_redirects, redirect_index + 1, redirects - 1, last)
        ELSE [kind |-> m.kind, error |-> m.error, requests |-> redirect_index + 1,
              response |-> IF m.kind = "response" THEN Resp(resp, "mirror") ELSE NoResp]

\* the lengths of the redirect chains the bypass service answers with
RedirectChains == {0, 1, cf_mirror_max_redirects, cf_mirror_max_redirects + 1}

\* every result of a call of _call_bypass_mirror, by its allow_redirects
CallBypassMirrorResults ==
    [allow_redirects \in BOOLEAN |->
        {MirrorLoop(allow_redirects, 0, redirects, last) :
            redirects \in RedirectChains, last \in Responses}]

\* the state shared between the tasks follows the task's new position
Shared(t, n, got_response) ==
    /\ cf_host_locks' = HostLocks(t, n)
    /\ cf_force_refresh_locks' = ForceRefreshLocks(t, n)
    /\ cf_host_challenge_hits' = ChallengeHitsAfterBypass(n, got_response)

\* _call_bypass_mirror returned (bypass_response, mirror_error) and the
\* coordinator goes on: lines 582-642
MirrorReturnsWith(t, bypass_response, mirror_error) ==
    LET r == task[t]
        n == AfterMirror(r, bypass_response, mirror_error) IN
    /\ r.pc = "mirror"
    /\ task' = [task EXCEPT ![t] = n]
    /\ Shared(t, n, bypass_response # NoResp)
    /\ UNCHANGED <<retry_count, cf_bypass_enabled, cf_host_retry_semaphores,
                   cf_last_bypass_attempt_age>>

\* the mirror request raised: lines 434-447
MirrorRaises(t) ==
    \E e \in Exceptions : MirrorReturnsWith(t, NoResp, Msg("mirror exception", 0))

\* _call_bypass_mirror returned after a chain of redirects and a last reply
\* (lines 449-480), and the coordinator goes on: lines 582-642.  The requests of
\* one mirror call touch no state shared between the tasks, so the call is one step.
MirrorResponds(t) ==
    \E m \in CallBypassMirrorResults[task[t].allow_redirects] :
        MirrorReturnsWith(t, m.response, m.error)

\* What the nested request("GET", <bypass>/html, enable_cf_bypass=False) can hand
\* to _call_bypass_html: a response with a success status (2xx, or 302 with
\* Location), or no response and an error.
HtmlResults ==
    { o \in [ok : BOOLEAN, status : {0, 200, 302}, location : BOOLEAN, empty : BOOLEAN] :
        /\ (o.ok => o.status # 0 /\ (o.location <=> o.status = 302))
        /\ (~o.ok => o.status = 0 /\ ~o.location /\ ~o.empty) }

\* the html_error _call_bypass_html makes of the nested request's outcome
HtmlError(o) ==
    IF ~o.ok THEN Msg("request failed", 0)
    ELSE IF o.status >= 400 THEN Msg("HTTP", o.status)
    ELSE IF o.empty THEN Msg("empty html", 0)
    ELSE EmptyMsg

\* _call_bypass_html returned on outcome o: lines 511-526, then 621-642
HtmlReturnsWith(t, o) ==
    LET r == task[t]
        html_error == HtmlError(o)
        n == IF html_error = EmptyMsg
             THEN AfterBypass(LeaveCoordinator(r), Resp(o, "html"), EmptyMsg)
             ELSE CoordinatorLoopEnd(r, Msg("mirror: ...; html: ...", 0), TRUE)
    IN  /\ r.pc = "html"
        /\ task' = [task EXCEPT ![t] = n]
        /\ Shared(t, n, html_error = EmptyMsg)
        /\ UNCHANGED <<retry_count, cf_bypass_enabled, cf_host_retry_semaphores,
                       cf_last_bypass_attempt_age>>

HtmlReturns(t) == \E o \in HtmlResults : HtmlReturnsWith(t, o)

\* asyncio.sleep between two coordinator iterations returned: line 640, then 561-581
BypassSleepReturns(t) ==
    /\ task[t].pc = "bypass_sleep"
    /\ task' = [task EXCEPT ![t] = CallBypassMirror([@ EXCEPT !.i = @ + 1], TRUE, FALSE)]
    /\ UNCHANGED <<retry_count, cf_bypass_enabled, cf_host_locks, cf_force_refresh_locks,
                   cf_host_retry_semaphores, cf_host_challenge_hits,
                   cf_last_bypass_attempt_age>>

\* a cancellation that releases nothing
CancelKeepsLocks(t) ==
    LET r == task[t]
        n == [NewTask(r.host, r.method, r.allow_redirects) EXCEPT
                 !.pc = "cancelled", !.cancelled_at = r.pc]
    IN  /\ r.pc \in AwaitPcs
        /\ task' = [task EXCEPT ![t] = n]
        /\ UNCHANGED <<retry_count, cf_bypass_enabled, cf_last_bypass_attempt_age,
                       cf_host_locks, cf_force_refresh_locks, cf_host_retry_semaphores,
                       cf_host_challenge_hits>>

\* The task is cancelled at an await: CancelledError, which no "except Exception"
\* catches, unwinds request(); every "async with" it is inside releases what it
\* holds (lines 543, 588, 700).
Cancel(t) ==
    LET r == task[t]
        n == [NewTask(r.host, r.method, r.allow_redirects) EXCEPT
                 !.pc = "cancelled", !.cancelled_at = r.pc]
    IN  /\ r.pc \in AwaitPcs
        /\ task' = [task EXCEPT ![t] = n]
        /\ cf_host_retry_semaphores' = [cf_host_retry_semaphores EXCEPT ![r.host] = @ \ {t}]
        /\ Shared(t, n, FALSE)
        /\ UNCHANGED <<retry_count, cf_bypass_enabled, cf_last_bypass_attempt_age>>

\* one second passes (time.monotonic)
Tick ==
    /\ \E h \in Hosts : /\ cf_last_bypass_attempt_age[h] # Never
                        /\ cf_last_bypass_attempt_age[h] < cf_bypass_min_interval
    /\ cf_last_bypass_attempt_age' =
          [h \in Hosts |->
              IF /\ cf_last_bypass_attempt_age[h] # Never
                 /\ cf_last_bypass_attempt_age[h] < cf_bypass_min_interval
              THEN cf_last_bypass_attempt_age[h] + 1
              ELSE cf_last_bypass_attempt_age[h]]
    /\ UNCHANGED <<retry_count, cf_bypass_enabled, cf_host_locks, cf_force_refresh_locks,
                   cf_host_retry_semaphores, cf_host_challenge_hits, task>>

Next ==
    \/ \E t \in Tasks :
          \/ Start(t) /\ UNCHANGED notweb
          \/ LimiterAcquire(t) /\ UNCHANGED notweb
          \/ SemaphoreAcquire(t) /\ UNCHANGED notweb
          \/ AttemptRaises(t) /\ UNCHANGED notweb
          \/ AttemptResponds(t) /\ UNCHANGED notweb
          \/ SleepReturns(t) /\ UNCHANGED notweb
          \/ LockAcquire(t) /\ UNCHANGED notweb
          \/ CooldownOver(t) /\ UNCHANGED notweb
          \/ MirrorRaises(t) /\ UNCHANGED notweb
          \/ MirrorResponds(t) /\ UNCHANGED notweb
          \/ HtmlReturns(t) /\ UNCHANGED notweb
          \/ BypassSleepReturns(t) /\ UNCHANGED notweb
          \/ Cancel(t) /\ UNCHANGED notweb
    \/ Tick /\ UNCHANGED notweb

Spec == Init /\ [][Next]_vars

\* ------------------------------------------------------------------ properties
Callers == {t \in Tasks : task[t].pc # "absent"}
ViaBypass(t) == task[t].pc = "done" /\ task[t].ret_resp.via \in {"mirror", "html"}
InFlightBypass(t) == task[t].pc \in {"mirror", "html"}

\* C1: a request() call sends at most retry_count + 1 direct requests, and at
\* most cf_request_bypass_rounds more when it ended with a bypass response.
C1_AttemptBound ==
    \A t \in Tasks :
        task[t].http_calls <= retry_count + 1
            + (IF ViaBypass(t) THEN cf_request_bypass_rounds ELSE 0)

\* a call that used every attempt of the largest retry count and failed
C1_Witness ==
    \E t \in Tasks : /\ task[t].pc = "done"
                     /\ retry_count = MaxRetry
                     /\ task[t].http_calls = retry_count
                     /\ task[t].ret_error = "failed"
                     /\ Len(task[t].sleep_calls) = retry_count - 1

\* C2: for every host at most one task is inside a mirror call, a forced-refresh
\* mirror call or a /html call at any instant.
C2_SingleFlight ==
    \A h \in Hosts :
        Cardinality({t \in Tasks : task[t].host = h /\ InFlightBypass(t)}) <= 1

\* two bypass calls for different hosts in flight at once, one of them forced
C2_Witness ==
    \E a, b \in Tasks : /\ task[a].host # task[b].host
                        /\ InFlightBypass(a) /\ InFlightBypass(b)
                        /\ task[a].refresh

\* C3 as stated: when at least two calls to one host were all answered with a
\* challenge page and all ended with a bypass response, the bypass service was
\* called once in all: by one of them once and by none of the others.
C3_Original ==
    ( /\ Cardinality(Callers) >= 2
      /\ \A a, b \in Callers : task[a].host = task[b].host
      /\ \A t \in Callers : ViaBypass(t) /\ task[t].bypass_calls >= 1 )
    => \E t \in Callers : /\ task[t].mirror_calls = 1
                          /\ \A u \in Callers \ {t} : task[u].mirror_calls = 0

\* C3: every coordinator invocation that returned to its caller made a mirror
\* call of its own, and so did every call that ended with a bypass response.
C3_Amended ==
    \A t \in Tasks : /\ task[t].mirror_calls >= task[t].bypass_round
                     /\ (ViaBypass(t) => task[t].mirror_calls >= 1)
                     /\ (task[t].pc \in {"mirror", "html", "bypass_sleep"}
                            => task[t].mirror_calls >= task[t].bypass_round + 1)

\* two calls to one host, both challenged, both ended with a bypass response
C3_Witness ==
    /\ Cardinality(Callers) >= 2
    /\ \A a, b \in Callers : task[a].host = task[b].host
    /\ \A t \in Callers : ViaBypass(t) /\ task[t].bypass_calls >= 1
                                       /\ task[t].mirror_calls >= 1

Classified(t) ==
    /\ task[t].pc \in {"sleep", "done"}
    /\ task[t].error_msg.k \in {"HTTP"} \cup Exceptions

\* C6 as stated: retry exactly for a timeout, a connection error, a request
\* exception, a status in {408, 429, 500, 502, 503, 504}, or 403 without bypass.
C6_Original ==
    \A t \in Tasks :
        Classified(t) =>
            (task[t].retry <=>
                \/ task[t].error_msg.k \in {"Timeout", "ConnectionError", "RequestException"}
                \/ /\ task[t].error_msg.k = "HTTP"
                   /\ \/ task[t].error_msg.s \in {408, 429, 500, 502, 503, 504}
                      \/ task[t].error_msg.s = 403 /\ ~cf_bypass_enabled)

\* C6: retry exactly for a timeout, a connection error, a request exception, or
\* a status in {403, 408, 429, 500, 502, 503, 504}, with or without bypass; a
\* retry that is not the last attempt's sleeps, anything else ends the call.
C6_Amended ==
    \A t \in Tasks :
        Classified(t) =>
            /\ task[t].retry <=>
                \/ task[t].error_msg.k \in {"Timeout", "ConnectionError", "RequestException"}
                \/ /\ task[t].error_msg.k = "HTTP"
                   /\ task[t].error_msg.s \in {403, 408, 429, 500, 502, 503, 504}
            /\ (~task[t].retry => task[t].pc = "done")
            /\ (task[t].retry /\ task[t].http_calls < retry_count => task[t].pc = "sleep")

\* a plain 403 on a client with bypass enabled is followed by the backoff sleep
C6_Witness ==
    \E t \in Tasks : /\ cf_bypass_enabled
                     /\ task[t].pc = "sleep"
                     /\ task[t].error_msg = Msg("HTTP", 403)
                     /\ task[t].retry

\* the step in which task t's attempt got a response
GotResponse(t) == task[t].pc = "request" /\ task'[t].resp # NoResp
SuccessStatus(r) == r.status \in 200..299 \/ (r.status = 302 /\ r.location)
EndsWithResponse(t) ==
    /\ task'[t].pc = "done"
    /\ task'[t].ret_resp = task'[t].resp
    /\ task'[t].ret_error = ""
    /\ cf_host_challenge_hits'[task[t].host] = 0
EndsWithStatusError(t) ==
    /\ task'[t].pc = "done"
    /\ task'[t].ret_resp = NoResp
    /\ task'[t].ret_error = "failed"
    /\ task'[t].error_msg = Msg("HTTP", task'[t].resp.status)
    /\ task'[t].sleep_calls = task[t].sleep_calls

\* C7 as stated: every attempt answered with 2xx or 302 with Location ends the
\* call with that response and resets the hit counter; every attempt answered
\* with another non-retryable status ends it with an error naming the status.
C7_Original ==
    [][\A t \in Tasks :
          GotResponse(t) =>
              /\ (SuccessStatus(task'[t].resp) => EndsWithResponse(t))
              /\ ((~SuccessStatus(task'[t].resp)
                   /\ task'[t].resp.status \notin {403, 408, 429, 500, 502, 503, 504})
                      => EndsWithStatusError(t))]_vars

\* C7: the same for every attempt whose response is not taken for a challenge page.
C7_Amended ==
    [][\A t \in Tasks :
          GotResponse(t) /\ ~task'[t].resp_challenge =>
              /\ (SuccessStatus(task'[t].resp) => EndsWithResponse(t))
              /\ ((~SuccessStatus(task'[t].resp)
                   /\ task'[t].resp.status \notin {403, 408, 429, 500, 502, 503, 504})
                      => EndsWithStatusError(t))]_vars

\* a call whose bypass failed and whose next attempt succeeded: counter back at 0
C7_Witness ==
    \E t \in Tasks : /\ task[t].pc = "done"
                     /\ task[t].ret_resp.via = "direct"
                     /\ task[t].ret_resp = task[t].resp
                     /\ task[t].bypass_calls >= 1
                     /\ \A u \in Tasks \ {t} : task[u].pc = "absent"
                     /\ cf_host_challenge_hits[task[t].host] = 0

\* C8: a call that returned has a response and an empty error, or no response
\* and a non-empty error; a call ends only by returning or by its cancellation.
C8_ResultShape ==
    \A t \in Tasks :
        /\ task[t].pc = "done" =>
              \/ task[t].ret_resp # NoResp /\ task[t].ret_error = ""
              \/ task[t].ret_resp = NoResp /\ task[t].ret_error # ""
        /\ task[t].pc # "done" => task[t].ret_resp = NoResp /\ task[t].ret_error = ""

\* the outer handler turned an internal exception into an error
C8_Witness ==
    \E t \in Tasks : /\ task[t].pc = "done"
                     /\ task[t].ret_resp = NoResp
                     /\ task[t].ret_error = "unknown"

\* no lock or slot is held by a task that is not inside its "async with"
NoLeak ==
    /\ \A h \in Hosts :
          /\ cf_host_locks[h] # NoTask =>
                /\ task[cf_host_locks[h]].pc \in CoordinatorPcs
                /\ task[cf_host_locks[h]].host = h
          /\ cf_force_refresh_locks[h] # NoTask =>
                /\ task[cf_force_refresh_locks[h]].pc = "mirror"
                /\ task[cf_force_refresh_locks[h]].refresh
                /\ task[cf_force_refresh_locks[h]].host = h
          /\ \A t \in cf_host_retry_semaphores[h] :
                task[t].pc = "request" /\ task[t].host = h
    /\ \A t \in Tasks :
          /\ task[t].pc \in CoordinatorPcs => cf_host_locks[task[t].host] = t
          /\ task[t].pc = "request" => t \in cf_host_retry_semaphores[task[t].host]

\* C9: a cancelled call holds no lock and no slot, and takes no further step.
C9_CancelReleases ==
    /\ []NoLeak
    /\ [][\A t \in Tasks : task[t].pc = "cancelled" => task'[t] = task[t]]_vars

\* a call cancelled inside the coordinator, and another call to the same host
\* inside the coordinator after it
C9_Witness ==
    \E t, u \in Tasks : /\ t # u
                        /\ task[t].host = task[u].host
                        /\ task[t].pc = "cancelled"
                        /\ task[t].cancelled_at \in CoordinatorPcs
                        /\ task[u].pc \in CoordinatorPcs
                        /\ cf_host_locks[task[u].host] = u

\* C10 as stated: with two or more challenge hits counted for the host, the
\* first bypass call the coordinator makes is a forced one.
C10_Original ==
    [][\A t \in Tasks :
          /\ task[t].pc = "cooldown" /\ task'[t].pc = "mirror"
          /\ cf_host_challenge_hits[task[t].host] >= 2
              => task'[t].bypass_cache]_vars

\* --------------------------------------------------- the client left unused
WebUnused ==
    /\ retry_count = 0
    /\ cf_bypass_enabled = FALSE
    /\ cf_host_locks = [h \in Hosts |-> NoTask]
    /\ cf_force_refresh_locks = [h \in Hosts |-> NoTask]
    /\ cf_host_retry_semaphores = [h \in Hosts |-> {}]
    /\ cf_host_challenge_hits = [h \in Hosts |-> 0]
    /\ cf_last_bypass_attempt_age = [h \in Hosts |-> Never]
    /\ task = [t \in Tasks |-> Absent]

\* ------------------------------------------- _is_cf_challenge_response alone
\* line 358-365: the six challenge markers, and the two that suffice alone (370)
challenge_markers ==
    {"just a moment", "cf-chl", "cdn-cgi/challenge-platform", "attention required",
     "enable javascript and cookies", "checking your browser before accessing"}
StrongMarkers == {"cf-chl", "cdn-cgi/challenge-platform"}

\* str.lower() of the header values the model uses
Lower(s) == IF s = "Cloudflare" THEN "cloudflare" ELSE s
\* "cloudflare" in server, "text/html" in content_type
HasCloudflare(server) == server \in {"cloudflare"}
HasTextHtml(content_type) == content_type \in {"text/html", "text/html; charset=utf-8"}

\* The responses classified: status, the server, cf-ray and content-type headers
\* ("" when absent), the markers found in the first 8192 bytes of the body
\* (head) and those found only after them (tail).
RawResponses ==
    [status_code : {200, 403, 404, 429, 503},
     server : {"", "nginx", "cloudflare", "Cloudflare"},
     cf_ray : {"", "8f2c1a"},
     content_type : {"", "text/html; charset=utf-8", "application/json"},
     head : {{}} \cup {{m} : m \in challenge_markers},
     tail : {{}, {"cf-chl"}}]

\* lines 343-356: what the classifier reads of a response; body_text is the
\* decoded prefix, and is empty unless the content type is text/html or absent
ResponseView(raw) ==
    LET server == Lower(raw.server)
        content_type == Lower(raw.content_type)
        body_text == IF HasTextHtml(content_type) \/ content_type = ""
                     THEN raw.head ELSE {}
    IN  [status |-> raw.status_code,
         location |-> FALSE,
         html |-> HasTextHtml(content_type) \/ content_type = "",
         marker |-> IF body_text \cap StrongMarkers # {} THEN "strong"
                    ELSE IF body_text \cap challenge_markers # {} THEN "weak"
                    ELSE "none",
         server_cf |-> HasCloudflare(server),
         cf_ray |-> raw.cf_ray # ""]

ClassifyInit ==
    /\ \E raw \in RawResponses : classify = [pc |-> "call", response |-> raw, result |-> FALSE]
    /\ WebUnused
    /\ group = Unused
    /\ fanout = Unused
    /\ record = Unused
    /\ scrape = Unused
    /\ detail = Unused
    /\ LaterUnused

\* _is_cf_challenge_response(response) returns
Classify ==
    /\ classify.pc = "call"
    /\ classify' = [classify EXCEPT !.pc = "done",
                        !.result = IsCfChallengeResponse(ResponseView(classify.response))]
    /\ UNCHANGED notclassify

ClassifyNext == Classify

ClassifySpec == ClassifyInit /\ [][ClassifyNext]_vars

\* the body prefix holds one of the six markers
PrefixHasMarker(raw) == raw.head \cap challenge_markers # {}

\* C11 as stated: challenge exactly when the prefix holds a marker and either the
\* status is 403, 429 or 503 with a cloudflare server header, or a cf-ray header
\* is present; or when the body holds one of the two markers that suffice alone.
C11_Original ==
    classify.pc = "done" =>
        (classify.result <=>
            LET raw == classify.response IN
            \/ /\ PrefixHasMarker(raw)
               /\ \/ raw.status_code \in {403, 429, 503} /\ HasCloudflare(Lower(raw.server))
                  \/ raw.cf_ray # ""
            \/ raw.head \cap StrongMarkers # {})

\* C11: challenge exactly when the content type is text/html or absent and the
\* body prefix holds a marker with status 403, 429 or 503 and a cloudflare server
\* header or a cf-ray header, or holds one of the two markers that suffice alone.
C11_Amended ==
    classify.pc = "done" =>
        (classify.result <=>
            LET raw == classify.response IN
            /\ raw.content_type \in {"", "text/html; charset=utf-8"}
            /\ \/ /\ PrefixHasMarker(raw)
                  /\ raw.status_code \in {403, 429, 503}
                  /\ Lower(raw.server) = "cloudflare" \/ raw.cf_ray # ""
               \/ raw.head \cap StrongMarkers # {})

\* a page with a weak marker and a cf-ray header only, status 503: a challenge
C11_Witness ==
    /\ classify.pc = "done"
    /\ classify.result
    /\ classify.response.head = {"just a moment"}
    /\ classify.response.server = ""
    /\ classify.response.cf_ray # ""

\* ------------------------------------------------------------- GatherGroup
\* the most coroutines added to one group
MaxCoros == 3
Coros == {"a", "b", "c", "d"}
Slots == 1..Len(group._tasks)

\* what a finished coroutine hands to asyncio.gather(return_exceptions=True)
Value(c) == [kind |-> "value", of |-> c]
Raised(c) == [kind |-> "exception", of |-> c]
\* TimeoutError(f"GatherGroup 整体超时 ({self._timeout}s)"): one object for all slots
timeout_error == [kind |-> "TimeoutError", of |-> "group"]

\* __init__: _results is declared but not assigned
GroupInit ==
    /\ \E timeout \in {"None", "30s"} :
          group = [pc |-> "new", _tasks |-> << >>, _results |-> << >>,
                   has_results |-> FALSE, _entered |-> FALSE, _timeout |-> timeout,
                   state |-> << >>, finished |-> << >>, add_raised |-> FALSE]
    /\ WebUnused
    /\ classify = Unused
    /\ fanout = Unused
    /\ record = Unused
    /\ scrape = Unused
    /\ detail = Unused
    /\ LaterUnused

\* add() outside the scope: RuntimeError
AddNotEntered ==
    /\ group.pc = "new"
    /\ ~group._entered
    /\ ~group.add_raised
    /\ group' = [group EXCEPT !.add_raised = TRUE]

\* __aenter__
Enter ==
    /\ group.pc = "new"
    /\ group' = [group EXCEPT !.pc = "entered", !._entered = TRUE]

\* add(coro) inside the scope: the coroutine is kept, not started
Add(c) ==
    /\ group.pc = "entered"
    /\ group._entered
    /\ Len(group._tasks) < MaxCoros
    /\ \A i \in Slots : group._tasks[i] # c
    /\ group' = [group EXCEPT !._tasks = Append(@, c), !.state = Append(@, "added")]

\* __aexit__ begins: nothing to wait for, or gather starts every coroutine
Exit ==
    /\ group.pc = "entered"
    /\ group' = IF group._tasks = << >>
                THEN [group EXCEPT !.pc = "exited"]
                ELSE [group EXCEPT !.pc = "gathering",
                                   !.state = [i \in Slots |-> "running"]]

\* the coroutine in slot i returns or raises; gather keeps waiting for the rest
Finish(i) ==
    /\ group.pc = "gathering"
    /\ group.state[i] = "running"
    /\ \E how \in {"returned", "raised"} :
          group' = [group EXCEPT !.state[i] = how, !.finished = Append(@, i)]

\* results listed in the order in which the coroutines finished
GatherResultsAsCompleted ==
    [k \in Slots |->
        LET i == group.finished[k] IN
        IF group.state[i] = "returned" THEN Value(group._tasks[i])
        ELSE Raised(group._tasks[i])]

\* the results of gather: slot i holds what the i-th awaitable gave
GatherResults ==
    [i \in Slots |-> IF group.state[i] = "returned" THEN Value(group._tasks[i])
                     ELSE Raised(group._tasks[i])]

\* every coroutine finished: gather returns and __aexit__ stores the list
GatherReturns ==
    /\ group.pc = "gathering"
    /\ \A i \in Slots : group.state[i] \in {"returned", "raised"}
    /\ group' = [group EXCEPT !.pc = "exited", !._results = GatherResults,
                              !.has_results = TRUE]

\* a timeout that keeps what the finished coroutines gave
TimeoutResultsKeepFinished ==
    [i \in Slots |-> IF group.state[i] = "returned" THEN Value(group._tasks[i])
                     ELSE IF group.state[i] = "raised" THEN Raised(group._tasks[i])
                     ELSE timeout_error]

\* the results after a timeout: [timeout_error] * len(self._tasks)
TimeoutResults == [i \in Slots |-> timeout_error]

\* wait_for's timeout fires before __aexit__ got gather's results: the gather
\* and through it every coroutine still running is cancelled
GroupTimeout ==
    /\ group.pc = "gathering"
    /\ group._timeout # "None"
    /\ group' = [group EXCEPT
                    !.pc = "timed out",
                    !.state = [i \in Slots |-> IF group.state[i] = "running"
                                               THEN "cancelled" ELSE group.state[i]],
                    !._results = TimeoutResults,
                    !.has_results = TRUE]

GroupNext ==
    \/ AddNotEntered /\ UNCHANGED notgroup
    \/ Enter /\ UNCHANGED notgroup
    \/ \E c \in Coros : Add(c) /\ UNCHANGED notgroup
    \/ Exit /\ UNCHANGED notgroup
    \/ \E i \in 1..MaxCoros : i \in Slots /\ Finish(i) /\ UNCHANGED notgroup
    \/ GatherReturns /\ UNCHANGED notgroup
    \/ GroupTimeout /\ UNCHANGED notgroup

GroupSpec == GroupInit /\ [][GroupNext]_vars

\* C12: after an exit without timeout, slot i of results holds the value or the
\* exception of the i-th coroutine added, whatever the order of completion, and
\* every coroutine ran to its end: none was cancelled because another raised.
C12_ResultsInAddOrder ==
    /\ (group.pc = "gathering" /\ group._timeout = "None"
            => \A i \in Slots : group.state[i] # "cancelled")
    /\ (group.pc = "exited" /\ group._tasks # << >>
            => /\ group.has_results
               /\ Len(group._results) = Len(group._tasks)
               /\ Len(group.finished) = Len(group._tasks)
               /\ \A i \in Slots :
                     /\ group.state[i] \in {"returned", "raised"}
                     /\ group._results[i].of = group._tasks[i]
                     /\ group._results[i].kind =
                           (IF group.state[i] = "raised" THEN "exception" ELSE "value"))

\* three coroutines, the last added finished first, the second raised
C12_Witness ==
    /\ group.pc = "exited"
    /\ Len(group._tasks) = 3
    /\ group.finished = <<3, 2, 1>>
    /\ group.state[2] = "raised"
    /\ group._results[1] = Value(group._tasks[1])
    /\ group._results[3] = Value(group._tasks[3])

\* C13: after a group timeout no coroutine is left running, every slot of
\* results holds the timeout error, also the slots of the coroutines that had
\* finished, and there are as many slots as coroutines added.
C13_TimeoutFillsEverySlot ==
    group.pc = "timed out"
        => /\ group.has_results
           /\ Len(group._results) = Len(group._tasks)
           /\ \A i \in Slots :
                 /\ group.state[i] \in {"returned", "raised", "cancelled"}
                 /\ (group.state[i] = "cancelled" <=> i \notin
                        {group.finished[k] : k \in 1..Len(group.finished)})
                 /\ group._results[i] = timeout_error

\* a timeout after one coroutine returned and while another was running
C13_Witness ==
    /\ group.pc = "timed out"
    /\ Len(group._tasks) = 3
    /\ group.state[1] = "returned"
    /\ group.state[2] = "cancelled"
    /\ group.state[3] = "raised"

\* ------------------------------------------------ text the code looks inside
\* A string whose characters the code reads is a sequence of one-character
\* strings, so that slicing, padding and matching are computed, not assumed.
Digits == {"0", "1", "2", "3", "4", "5", "6", "7", "8", "9"}

AllDigits(s) == \A i \in 1..Len(s) : s[i] \in Digits

\* release[:4]
First4(s) == SubSeq(s, 1, IF Len(s) < 4 THEN Len(s) ELSE 4)

\* YYYY-MM-DD
IsIsoDate(s) ==
    /\ Len(s) = 10
    /\ s[5] = "-" /\ s[8] = "-"
    /\ \A i \in {1, 2, 3, 4, 6, 7, 9, 10} : s[i] \in Digits

Pad2(s) == IF Len(s) = 1 THEN <<"0">> \o s ELSE s

Dashes(s) == {i \in 1..Len(s) : s[i] = "-"}

\* The release a merge adopts: year-month-day with month and day padded to two
\* digits ("2024-1-2" gives "2024-01-02"); the placeholder "0000-00-00" and
\* anything that is not a date give "".
get_valid_release(s) ==
    IF \E d \in Dashes(s) :
          /\ Dashes(s) = {5, d}
          /\ d \in {7, 8} /\ Len(s) - d \in {1, 2}
          /\ AllDigits(SubSeq(s, 1, 4))
          /\ AllDigits(SubSeq(s, 6, d - 1))
          /\ AllDigits(SubSeq(s, d + 1, Len(s)))
    THEN LET d == CHOOSE d \in Dashes(s) : d # 5
             date == SubSeq(s, 1, 5) \o Pad2(SubSeq(s, 6, d - 1)) \o <<"-">>
                        \o Pad2(SubSeq(s, d + 1, Len(s)))
         IN  IF \A i \in {1, 2, 3, 4, 6, 7, 9, 10} : date[i] = "0" THEN << >> ELSE date
    ELSE << >>

\* FileScraper._is_invalid_runtime: a runtime that is written as zero
\* ("0", "00", "0.0", "0.00"); the empty string is not one
is_invalid_runtime(s) ==
    /\ s # << >>
    /\ \A i \in 1..Len(s) : s[i] \in {"0", "."}
    /\ Cardinality({i \in 1..Len(s) : s[i] = "."}) <= 1
    /\ \E i \in 1..Len(s) : s[i] = "0"

\* ------------------------------------------------------- the fanout / merge
MaxSites == 2

Websites == {"dmm", "mgstage", "javdb"}

NoSite == "none"

ReducedFields == {"runtime", "release", "year"}

number == "200GANA-3327"

short_numbers == {"GANA-3327", ""}

Runtimes ==
    {<< >>, <<"0">>, <<"0", "0">>, <<"0", ".", "0">>, <<"0", ".", "0", "0">>, <<"5", "5">>}

\* what a site's crawler hands back for release and year: nothing, the
\* placeholder date with and without the year cut from it, a date with
\* one-digit month and day and no year, an ISO date with its year
ReleaseYears ==
    {[release |-> << >>, year |-> << >>],
     [release |-> <<"0", "0", "0", "0", "-", "0", "0", "-", "0", "0">>, year |-> << >>],
     [release |-> <<"0", "0", "0", "0", "-", "0", "0", "-", "0", "0">>,
      year |-> <<"0", "0", "0", "0">>],
     [release |-> <<"2", "0", "2", "4", "-", "1", "-", "2">>, year |-> << >>],
     [release |-> <<"2", "0", "2", "3", "-", "1", "2", "-", "3", "1">>,
      year |-> <<"2", "0", "2", "3">>]}

SiteRecords ==
    {[runtime |-> rt, release |-> ry.release, year |-> ry.year] :
        rt \in Runtimes, ry \in ReleaseYears}

\* the orders a priority list can put the enabled sites in
Orders(sites) ==
    {o \in UNION {[1..n -> sites] : n \in 1..MaxSites} :
        /\ Len(o) = Cardinality(sites)
        /\ \A i, j \in 1..Len(o) : i # j => o[i] # o[j]}

NewCall == [pc |-> "new", number |-> number, called_with |-> "", outcome |-> "pending",
            data |-> [runtime |-> << >>, release |-> << >>, year |-> << >>]]

EmptyResult == [kind |-> "none", runtime |-> << >>, release |-> << >>, year |-> << >>,
                field_sources |-> [f \in ReducedFields |-> NoSite]]

FanoutInit ==
    /\ \E sites \in SUBSET Websites, short \in short_numbers :
          /\ Cardinality(sites) \in 1..MaxSites
          /\ \E config \in [ReducedFields -> Orders(sites)] :
                fanout = [pc |-> "gather", enabled_sites |-> sites, config |-> config,
                          short_number |-> short,
                          call |-> [s \in Websites |-> NewCall],
                          arrived |-> << >>, result |-> EmptyResult]
    /\ WebUnused
    /\ classify = Unused
    /\ group = Unused
    /\ record = Unused
    /\ scrape = Unused
    /\ detail = Unused
    /\ LaterUnused

\* _call_crawler, up to the await of crawler.run: every site but MGStage is
\* given the short number when there is one
CallNumber(site) ==
    IF fanout.short_number # "" /\ site # "mgstage" THEN fanout.short_number ELSE number

CallCrawler(site) ==
    /\ fanout.pc = "gather"
    /\ site \in fanout.enabled_sites
    /\ fanout.call[site].pc = "new"
    /\ fanout' = [fanout EXCEPT !.call[site].pc = "running",
                               !.call[site].number = CallNumber(site),
                               !.call[site].called_with = CallNumber(site)]
    /\ UNCHANGED notfanout

\* the end of _call_crawler: the input's number is put back
CallEnds(site, outcome, data) ==
    [fanout EXCEPT !.call[site].pc = "done",
                   !.call[site].number = number,
                   !.call[site].outcome = outcome,
                   !.call[site].data = data,
                   !.arrived = Append(@, site)]

CallEndsNoRestore(site, outcome, data) ==
    [fanout EXCEPT !.call[site].pc = "done",
                   !.call[site].outcome = outcome,
                   !.call[site].data = data,
                   !.arrived = Append(@, site)]

\* crawler.run returns a response that carries data
CrawlerReturns(site) ==
    /\ fanout.pc = "gather"
    /\ fanout.call[site].pc = "running"
    /\ \E data \in SiteRecords : fanout' = CallEnds(site, "data", data)
    /\ UNCHANGED notfanout

\* crawler.run returns a response without data
CrawlerFails(site) ==
    /\ fanout.pc = "gather"
    /\ fanout.call[site].pc = "running"
    /\ fanout' = CallEnds(site, "no data", NewCall.data)
    /\ UNCHANGED notfanout

CrawlerRaisesNoRestore(site) ==
    /\ fanout.pc = "gather"
    /\ fanout.call[site].pc = "running"
    /\ fanout' = CallEndsNoRestore(site, "raised", NewCall.data)
    /\ UNCHANGED notfanout

\* crawler.run raises: the exception leaves _call_crawler, the number is put
\* back on the way out, and the gather keeps it as that site's result
CrawlerRaises(site) ==
    /\ fanout.pc = "gather"
    /\ fanout.call[site].pc = "running"
    /\ fanout' = CallEnds(site, "raised", NewCall.data)
    /\ UNCHANGED notfanout

\* validity of one field's value
IsNonEmpty(field, value) == value # << >>

IsValid(field, value) ==
    CASE field = "runtime" -> value # << >> /\ ~is_invalid_runtime(value)
      [] field = "release" -> get_valid_release(value) # << >>
      [] OTHER -> value # << >>

\* the value as the merged record keeps it
Adopted(field, value) == IF field = "release" THEN get_valid_release(value) ELSE value

Succeeded(site) == fanout.call[site].outcome = "data"

SiteOrderAsArrived(field) == fanout.arrived

\* the sites in the order the merge asks them for a field
SiteOrder(field) == fanout.config[field]

\* walk the list, stop at the first site with a valid value
RECURSIVE Walk(_, _, _)
Walk(field, order, i) ==
    IF i > Len(order) THEN NoSite
    ELSE IF Succeeded(order[i]) /\ IsValid(field, fanout.call[order[i]].data[field])
         THEN order[i]
         ELSE Walk(field, order, i + 1)

Winner(field) == Walk(field, SiteOrder(field), 1)

MergedField(field) ==
    IF Winner(field) = NoSite THEN << >>
    ELSE Adopted(field, fanout.call[Winner(field)].data[field])

\* year is filled from the merged release unless a site populated it
MergedYear ==
    IF Winner("year") # NoSite THEN MergedField("year")
    ELSE IF IsIsoDate(MergedField("release")) THEN First4(MergedField("release"))
    ELSE << >>

Merged ==
    [kind |-> "record",
     runtime |-> MergedField("runtime"),
     release |-> MergedField("release"),
     year |-> MergedYear,
     field_sources |-> [f \in ReducedFields |-> Winner(f)]]

AllDone == \A s \in fanout.enabled_sites : fanout.call[s].pc = "done"

CallCrawlersResultNoneOnAnyFailure ==
    IF \A s \in fanout.enabled_sites : Succeeded(s) THEN Merged ELSE EmptyResult

\* none when every site failed, the merged record otherwise
CallCrawlersResult ==
    IF \E s \in fanout.enabled_sites : Succeeded(s) THEN Merged ELSE EmptyResult

\* _call_crawlers returns once the gather has every site's result
CallCrawlersReturns ==
    /\ fanout.pc = "gather"
    /\ AllDone
    /\ fanout' = [fanout EXCEPT !.pc = "returned", !.result = CallCrawlersResult]
    /\ UNCHANGED notfanout

FanoutNext ==
    \/ \E s \in Websites : CallCrawler(s)
    \/ \E s \in Websites : CrawlerReturns(s)
    \/ \E s \in Websites : CrawlerFails(s)
    \/ \E s \in Websites : CrawlerRaises(s)
    \/ CallCrawlersReturns

FanoutSpec == FanoutInit /\ [][FanoutNext]_vars

\* ------------------------------------------------- properties of the merge
Returned == fanout.pc = "returned" /\ fanout.result.kind = "record"

ReturnedValue(site, field) == fanout.call[site].data[field]

HasValid(site, field) ==
    fanout.call[site].outcome = "data" /\ IsValid(field, ReturnedValue(site, field))

\* the positions of a field's priority list whose site returned a valid value
ValidAt(field) ==
    {i \in 1..Len(fanout.config[field]) : HasValid(fanout.config[field][i], field)}

FirstValidSite(field) ==
    fanout.config[field][CHOOSE i \in ValidAt(field) : \A j \in ValidAt(field) : i <= j]

\* C14 as stated: every merged field holds the very value returned by the
\* first site of its priority list whose value is valid, and field_sources
\* names that site.
C14_Original ==
    Returned =>
        \A f \in ReducedFields :
            IF ValidAt(f) # {}
            THEN /\ fanout.result[f] = ReturnedValue(FirstValidSite(f), f)
                 /\ fanout.result.field_sources[f] = FirstValidSite(f)
            ELSE fanout.result[f] = << >>

\* C14, amended: every merged field comes from the first site of its priority
\* list whose value is valid, and field_sources names that site; the release
\* is kept in its zero-padded YYYY-MM-DD form, and a year that no site
\* returned is cut from the merged release. Nothing in this depends on the
\* order in which the sites' calls ended.
C14_Amended ==
    Returned =>
        \A f \in ReducedFields :
            IF ValidAt(f) # {}
            THEN /\ fanout.result.field_sources[f] = FirstValidSite(f)
                 /\ f # "release" => fanout.result[f] = ReturnedValue(FirstValidSite(f), f)
                 /\ f = "release" =>
                       /\ IsIsoDate(fanout.result[f])
                       /\ fanout.result[f] =
                             get_valid_release(ReturnedValue(FirstValidSite(f), f))
            ELSE /\ fanout.result.field_sources[f] = NoSite
                 /\ f # "year" => fanout.result[f] = << >>
                 /\ f = "year" => fanout.result[f] = First4(fanout.result.release)

\* two sites, the first of the runtime list returned a placeholder and came in
\* first, the second one is adopted; the release comes from the first of its
\* list, which came in last
C14_Witness ==
    /\ Returned
    /\ Len(fanout.arrived) = 2
    /\ ~HasValid(fanout.config["runtime"][1], "runtime")
    /\ fanout.result.field_sources["runtime"] = fanout.config["runtime"][2]
    /\ fanout.arrived[1] = fanout.config["runtime"][1]
    /\ \A s \in fanout.enabled_sites : HasValid(s, "release")
    /\ fanout.result.field_sources["release"] = fanout.config["release"][1]
    /\ fanout.arrived[2] = fanout.config["release"][1]

RuntimePlaceholders ==
    {<<"0">>, <<"0", "0">>, <<"0", ".", "0">>, <<"0", ".", "0", "0">>}

ReleasePlaceholder == <<"0", "0", "0", "0", "-", "0", "0", "-", "0", "0">>

IsPlaceholder(field, value) ==
    \/ field = "runtime" /\ value \in RuntimePlaceholders
    \/ field = "release" /\ value = ReleasePlaceholder

\* a site returned a value of the field that is neither empty nor a placeholder
HasReal(site, field) ==
    /\ fanout.call[site].outcome = "data"
    /\ ReturnedValue(site, field) # << >>
    /\ ~IsPlaceholder(field, ReturnedValue(site, field))

PlaceholdersLose ==
    \A f \in {"runtime", "release"} :
        /\ ~IsPlaceholder(f, fanout.result[f])
        /\ \A s \in fanout.enabled_sites :
              fanout.result.field_sources[f] = s => HasReal(s, f)
        /\ (\E s \in fanout.enabled_sites : HasReal(s, f))
              => fanout.result.field_sources[f] # NoSite

NoValidRelease == \A s \in fanout.enabled_sites : ~HasReal(s, "release")

PostProcessSites == {"dmm", "avbase", "missav"}

\* releases a detail page can yield: none, shorter than a year, the
\* placeholder, an ISO date, a timestamp (DMM TV), a date after a label
ParsedReleases ==
    {<< >>,
     <<"2", "0", "2">>,
     <<"0", "0", "0", "0", "-", "0", "0", "-", "0", "0">>,
     <<"2", "0", "2", "3", "-", "1", "2", "-", "3", "1">>,
     <<"2", "0", "2", "5", "-", "0", "5", "-", "1", "7", "T", "2", "0", ":", "0", "0">>,
     <<"o", "n", " ", "2", "0", "2", "4", "-", "0", "1", "-", "0", "2">>}

\* str(data.productionYear) of a DMM TV title, or no year
ProductionYears == {<< >>, <<"2", "0", "2", "2">>}

\* re.search(r"\d{4}", release): the leftmost run of four digits, or nothing
FourDigitsAt(s) == {i \in 1..Len(s) - 3 : AllDigits(SubSeq(s, i, i + 3))}

SearchYear(s) ==
    IF FourDigitsAt(s) = {} THEN << >>
    ELSE LET i == CHOOSE i \in FourDigitsAt(s) : \A j \in FourDigitsAt(s) : i <= j
         IN  SubSeq(s, i, i + 3)

\* the record a site's parser hands to its post_process: DMM TV sets the year
\* from productionYear, AVBase sets none, MissAV searches the release for it
ParsedRecords(site) ==
    CASE site = "dmm" ->
            {[release |-> r, year |-> y] : r \in ParsedReleases, y \in ProductionYears}
      [] site = "avbase" -> {[release |-> r, year |-> << >>] : r \in ParsedReleases}
      [] OTHER -> {[release |-> r, year |-> SearchYear(r)] : r \in ParsedReleases}

RecordInit ==
    /\ \E site \in PostProcessSites :
          \E res \in ParsedRecords(site) :
              record = [pc |-> "parsed", site |-> site, res |-> res]
    /\ WebUnused
    /\ classify = Unused
    /\ group = Unused
    /\ fanout = Unused
    /\ scrape = Unused
    /\ detail = Unused
    /\ LaterUnused

DmmPostProcessKeepYear(res) ==
    IF Len(res.release) >= 4 /\ res.year = << >>
    THEN [res EXCEPT !.year = First4(res.release)]
    ELSE res

\* DmmCrawler.post_process: if len(res.release) >= 4: res.year = res.release[:4]
DmmPostProcess(res) ==
    IF Len(res.release) >= 4 THEN [res EXCEPT !.year = First4(res.release)] ELSE res

\* AvbaseCrawler.post_process:
\* if res.release and len(res.release) >= 4 and not res.year
AvbasePostProcess(res) ==
    IF res.release # << >> /\ Len(res.release) >= 4 /\ res.year = << >>
    THEN [res EXCEPT !.year = First4(res.release)]
    ELSE res

\* MissavCrawler.post_process:
\* if not res.year and (match := re.search(r"\d{4}", res.release or ""))
MissavPostProcess(res) ==
    IF res.year = << >> /\ FourDigitsAt(res.release) # {}
    THEN [res EXCEPT !.year = SearchYear(res.release)]
    ELSE res

PostProcess ==
    /\ record.pc = "parsed"
    /\ record' = [record EXCEPT
                    !.pc = "done",
                    !.res = CASE record.site = "dmm" -> DmmPostProcess(@)
                              [] record.site = "avbase" -> AvbasePostProcess(@)
                              [] OTHER -> MissavPostProcess(@)]
    /\ UNCHANGED notrecord

\* site records and merged records together
RecordsInit == RecordInit \/ FanoutInit

RecordsNext == PostProcess \/ FanoutNext

RecordsSpec == RecordsInit /\ [][RecordsNext]_vars

PostProcessed == record.pc = "done"

YearOfRelease(res) == IsIsoDate(res.release) => res.year = First4(res.release)

\* C16 as stated: in every record a site's post_process produced and in every
\* merged record, an ISO release comes with the year of its first four
\* characters.
C16_Original ==
    /\ PostProcessed => YearOfRelease(record.res)
    /\ Returned => YearOfRelease(fanout.result)

\* C16, amended: in every record a site's post_process produced, an ISO
\* release comes with the year of its first four characters; in a merged
\* record it does too, unless a site of the year priority list returned a
\* year of its own, which is then the merged year.
C16_Amended ==
    /\ PostProcessed => YearOfRelease(record.res)
    /\ Returned =>
          IF ValidAt("year") = {}
          THEN YearOfRelease(fanout.result)
          ELSE fanout.result.year = ReturnedValue(FirstValidSite("year"), "year")

\* a DMM record parsed with the production year 2022 and an ISO release of
\* 2023 has the year 2023 after post_process
C16_Witness ==
    /\ PostProcessed
    /\ record.site = "dmm"
    /\ IsIsoDate(record.res.release)
    /\ record.res.year = <<"2", "0", "2", "3">>

Called(site) == fanout.call[site].pc \in {"running", "done"}

\* C17: with number 200GANA-3327 and short number GANA-3327 the DMM crawler is
\* run with the short number and the MGStage crawler with the full one, and
\* once a site's call has returned or raised, the input it was given holds
\* the original number again.
C17_NumberRestored ==
    /\ fanout.pc # "unused" /\ fanout.short_number = "GANA-3327" =>
          /\ Called("dmm") => fanout.call["dmm"].called_with = "GANA-3327"
          /\ Called("mgstage") => fanout.call["mgstage"].called_with = "200GANA-3327"
    /\ fanout.pc # "unused" =>
          \A s \in Websites :
              fanout.call[s].pc = "done" => fanout.call[s].number = "200GANA-3327"

\* DMM was run with the short number and raised, MGStage was run with the
\* full number and returned, and both inputs hold the original number
C17_Witness ==
    /\ fanout.pc # "unused"
    /\ fanout.short_number = "GANA-3327"
    /\ fanout.call["dmm"].pc = "done"
    /\ fanout.call["dmm"].outcome = "raised"
    /\ fanout.call["dmm"].called_with = "GANA-3327"
    /\ fanout.call["dmm"].number = "200GANA-3327"
    /\ fanout.call["mgstage"].pc = "done"
    /\ fanout.call["mgstage"].outcome = "data"
    /\ fanout.call["mgstage"].called_with = "200GANA-3327"

NumFiles == 3

GraceWindow == 2

Files == 1..NumFiles

\* Flags.json_get_status[number]: no entry, None while the first task's lookup
\* is in flight, True after its success, False after its failure
Status == {"absent", "in-flight", "success", "failed"}

NewFile == [pc |-> "new", result |-> "pending", scraped |-> FALSE, polls |-> 0]

ScrapeInit ==
    /\ \E status \in {"absent", "failed"} :
          scrape = [json_get_status |-> status, file |-> [f \in Files |-> NewFile]]
    /\ WebUnused
    /\ classify = Unused
    /\ group = Unused
    /\ fanout = Unused
    /\ record = Unused
    /\ detail = Unused
    /\ LaterUnused

\* _process_one_file returns
Returns(f, result) ==
    [scrape EXCEPT !.file[f].pc = "returned", !.file[f].result = result]

\* _process_one_file looks the number up in the shared map: a failed number
\* ends the task with (None, None), a finished one is reused, an unknown one
\* is marked in flight and scraped by this task, one in flight is waited for
Begin(f) ==
    /\ scrape.file[f].pc = "new"
    /\ scrape' =
          CASE scrape.json_get_status = "failed" -> Returns(f, "empty")
            [] scrape.json_get_status = "success" -> Returns(f, "shared")
            [] scrape.json_get_status = "in-flight" -> [scrape EXCEPT !.file[f].pc = "waiting"]
            [] OTHER -> [scrape EXCEPT !.json_get_status = "in-flight",
                                       !.file[f].pc = "scraping",
                                       !.file[f].scraped = TRUE]
    /\ UNCHANGED notscrape

\* the first task's lookup ends and is published in the map
ScrapeEnds(f) ==
    /\ scrape.file[f].pc = "scraping"
    /\ \E ok \in BOOLEAN :
          scrape' = [scrape EXCEPT
                        !.json_get_status = IF ok THEN "success" ELSE "failed",
                        !.file[f].pc = "returned",
                        !.file[f].result = IF ok THEN "own" ELSE "empty"]
    /\ UNCHANGED notscrape

PollKeepsWaiting(f) ==
    /\ scrape.file[f].pc = "waiting"
    /\ scrape.json_get_status # "in-flight" \/ scrape.file[f].polls < GraceWindow
    /\ scrape' =
          CASE scrape.json_get_status = "success" -> Returns(f, "shared")
            [] scrape.json_get_status = "failed" -> scrape
            [] OTHER -> [scrape EXCEPT !.file[f].polls = @ + 1]
    /\ UNCHANGED notscrape

\* a waiting task wakes from its sleep and reads the map again
Poll(f) ==
    /\ scrape.file[f].pc = "waiting"
    /\ scrape.json_get_status # "in-flight" \/ scrape.file[f].polls < GraceWindow
    /\ scrape' =
          CASE scrape.json_get_status = "failed" -> Returns(f, "empty")
            [] scrape.json_get_status = "success" -> Returns(f, "shared")
            [] OTHER -> [scrape EXCEPT !.file[f].polls = @ + 1]
    /\ UNCHANGED notscrape

\* the grace window is over and the number is still in flight: the wait ends
GraceOver(f) ==
    /\ scrape.file[f].pc = "waiting"
    /\ scrape.json_get_status = "in-flight"
    /\ scrape.file[f].polls = GraceWindow
    /\ scrape' = [scrape EXCEPT !.file[f].pc = "wait over"]
    /\ UNCHANGED notscrape

ScrapeNext ==
    \/ \E f \in Files : Begin(f)
    \/ \E f \in Files : ScrapeEnds(f)
    \/ \E f \in Files : Poll(f)
    \/ \E f \in Files : GraceOver(f)

ScrapeSpec == ScrapeInit /\ [][ScrapeNext]_vars

\* the event loop runs every task that is ready, and every sleep returns
ScrapeFairSpec ==
    /\ ScrapeSpec
    /\ \A f \in Files : WF_vars(Begin(f)) /\ WF_vars(Poll(f)) /\ WF_vars(GraceOver(f))

Pending(f) == scrape.file[f].pc \in {"new", "waiting"}

\* C19: a task that finds its number failed, on arrival or while it waits for
\* the lookup in flight, returns an empty result at its next step without
\* scraping, and it does take that step.
C19_FailedStopsWaiting ==
    /\ [][\A f \in Files :
             /\ scrape.json_get_status = "failed"
             /\ Pending(f)
             /\ scrape'.file[f] # scrape.file[f]
             => /\ scrape'.file[f].pc = "returned"
                /\ scrape'.file[f].result = "empty"
                /\ ~scrape'.file[f].scraped]_vars
    /\ \A f \in Files :
          (scrape.json_get_status = "failed" /\ Pending(f))
              ~> (scrape.file[f].pc = "returned" /\ scrape.file[f].result = "empty")

\* a task that waited, was woken at least once while the number was in
\* flight, and returned empty after the first task's failure
C19_Witness ==
    /\ scrape.json_get_status = "failed"
    /\ \E f \in Files :
          /\ scrape.file[f].pc = "returned"
          /\ scrape.file[f].result = "empty"
          /\ scrape.file[f].polls > 0
          /\ ~scrape.file[f].scraped

\* ------------------------------------------- DMM's fanout over detail URLs
MaxUrls == 2

MaxPath == 2

\* for category in (DIGITAL, MONO, RENTAL, PRIME, MONTHLY), after the two TV
\* categories
CategoryOrder == <<"fanza_tv", "dmm_tv", "digital", "mono", "rental", "prime", "monthly">>

Categories == {CategoryOrder[i] : i \in 1..Len(CategoryOrder)}

CategoryRank(c) == CHOOSE i \in 1..Len(CategoryOrder) : CategoryOrder[i] = c

\* a detail URL: the category parse_category reads from it, and its place
\* among the URLs of that category when they are sorted
Urls == [category : Categories, path : 1..MaxPath]

DetailUrlLists ==
    {l \in UNION {[1..n -> Urls] : n \in 1..MaxUrls} :
        \A i, j \in 1..Len(l) : i # j => l[i] # l[j]}

\* a trailer URL: the quality token before ".mp4", and the extension
NoTrailer == [quality |-> "", ext |-> ""]

Trailers ==
    {NoTrailer,
     [quality |-> "", ext |-> "m3u8"],
     [quality |-> "sm", ext |-> "mp4"],
     [quality |-> "hhbs", ext |-> "mp4"]}

\* a title: the fetch whose page it was read from, none for the empty title
NoTitle == [page |-> 0]

\* is_valid: the field holds something
is_valid(value) == value # NoTitle /\ value # NoTrailer

trailer_quality_rank(trailer) ==
    IF trailer.ext # "mp4" THEN 0
    ELSE CASE trailer.quality = "sm" -> 1
           [] trailer.quality = "dm" -> 2
           [] trailer.quality = "dmb" -> 3
           [] trailer.quality \in {"mmb", "mmbs"} -> 4
           [] trailer.quality \in {"hmb", "hmbs"} -> 5
           [] trailer.quality \in {"mhb", "mhbs"} -> 6
           [] trailer.quality \in {"hhb", "hhbs"} -> 7
           [] trailer.quality \in {"4k", "4ks"} -> 8
           [] OTHER -> 0

is_hls_playlist_trailer(trailer) == trailer.ext = "m3u8"

pick_latest_trailer(current, candidate) == candidate

pick_higher_quality_trailer(current, candidate) ==
    IF current = NoTrailer THEN candidate
    ELSE IF trailer_quality_rank(candidate) > trailer_quality_rank(current) THEN candidate
    ELSE current

\* update_valid(res, r, is_valid): the valid fields of r replace those of res
update_valid(res, r) ==
    [title |-> IF is_valid(r.title) THEN r.title ELSE res.title,
     trailer |-> IF is_valid(r.trailer) THEN r.trailer ELSE res.trailer]

\* the URLs of one category in the order of the list
RECURSIVE InListOrder(_, _)
InListOrder(l, c) ==
    IF l = << >> THEN << >>
    ELSE (IF Head(l).category = c THEN <<Head(l)>> ELSE << >>) \o InListOrder(Tail(l), c)

\* sorted(d[category])
RECURSIVE Sorted(_, _, _)
Sorted(l, c, p) ==
    IF p > MaxPath THEN << >>
    ELSE (IF \E i \in 1..Len(l) : l[i] = [category |-> c, path |-> p]
          THEN <<[category |-> c, path |-> p]>> ELSE << >>) \o Sorted(l, c, p + 1)

RECURSIVE SortedFrom(_, _)
SortedFrom(l, k) ==
    IF k > Len(CategoryOrder) THEN << >>
    ELSE Sorted(l, CategoryOrder[k], 1) \o SortedFrom(l, k + 1)

\* the order of the group.add calls
AddOrder(l) == InListOrder(l, "fanza_tv") \o InListOrder(l, "dmm_tv") \o SortedFrom(l, 3)

PendingResult == [kind |-> "pending", title |-> NoTitle, trailer |-> NoTrailer]

ExceptionResult == [kind |-> "exception", title |-> NoTitle, trailer |-> NoTrailer]

NoRes == [kind |-> "None", title |-> NoTitle, trailer |-> NoTrailer]

DetailInit ==
    /\ \E l \in DetailUrlLists :
          detail = [pc |-> "new", detail_urls |-> l, added |-> << >>, results |-> << >>,
                    finished |-> << >>, res |-> NoRes]
    /\ WebUnused
    /\ classify = Unused
    /\ group = Unused
    /\ fanout = Unused
    /\ record = Unused
    /\ scrape = Unused
    /\ LaterUnused

\* the body of the async with: one fetch is added per URL
AddFetches ==
    /\ detail.pc = "new"
    /\ detail' = [detail EXCEPT
                    !.pc = "gather",
                    !.added = AddOrder(detail.detail_urls),
                    !.results = [i \in 1..Len(detail.detail_urls) |-> PendingResult]]
    /\ UNCHANGED notdetail

\* a fetch returns CrawlerData, empty when the page could not be had; the
\* title tells which fetch it came from
FetchReturns(i) ==
    /\ detail.pc = "gather"
    /\ i \in 1..Len(detail.results)
    /\ detail.results[i].kind = "pending"
    /\ \E title \in {NoTitle, [page |-> i]}, trailer \in Trailers :
          detail' = [detail EXCEPT
                        !.results[i] = [kind |-> "data", title |-> title, trailer |-> trailer],
                        !.finished = Append(@, i)]
    /\ UNCHANGED notdetail

\* a fetch raises: the gather keeps the exception in its slot
FetchRaises(i) ==
    /\ detail.pc = "gather"
    /\ i \in 1..Len(detail.results)
    /\ detail.results[i].kind = "pending"
    /\ detail' = [detail EXCEPT !.results[i] = ExceptionResult, !.finished = Append(@, i)]
    /\ UNCHANGED notdetail

\* the loop over group.results[::-1], from slot i down to 1, and what follows it
RECURSIVE MergeDown(_, _, _)
MergeDown(i, res, best_trailer) ==
    IF i = 0
    THEN IF res.kind # "None" /\ best_trailer # NoTrailer
         THEN [res EXCEPT !.trailer = best_trailer]
         ELSE IF /\ res.kind # "None"
                 /\ is_valid(res.trailer)
                 /\ is_hls_playlist_trailer(res.trailer)
              THEN [res EXCEPT !.trailer = NoTrailer]
              ELSE res
    ELSE LET r == detail.results[i] IN
         IF r.kind = "exception" THEN MergeDown(i - 1, res, best_trailer)
         ELSE IF is_valid(r.trailer) /\ is_hls_playlist_trailer(r.trailer)
              THEN MergeDown(i - 1, res, best_trailer)
              ELSE MergeDown(i - 1,
                             IF res.kind = "None" THEN r ELSE update_valid(res, r)
                                                              @@ [kind |-> "data"],
                             IF is_valid(r.trailer)
                             THEN pick_higher_quality_trailer(best_trailer, r.trailer)
                             ELSE best_trailer)

\* every fetch has ended: __aexit__ stores the results, the merge runs and
\* _detail returns
DetailReturns ==
    /\ detail.pc = "gather"
    /\ \A i \in 1..Len(detail.results) : detail.results[i].kind # "pending"
    /\ detail' = [detail EXCEPT !.pc = "returned",
                                !.res = MergeDown(Len(detail.results), NoRes, NoTrailer)]
    /\ UNCHANGED notdetail

\* the group's timeout passes first: every slot holds the TimeoutError, and
\* _detail returns None
DetailTimeout ==
    /\ detail.pc = "gather"
    /\ \E i \in 1..Len(detail.results) : detail.results[i].kind = "pending"
    /\ detail' = [detail EXCEPT
                    !.pc = "timed out",
                    !.results = [i \in 1..Len(detail.results) |-> ExceptionResult],
                    !.res = NoRes]
    /\ UNCHANGED notdetail

DetailNext ==
    \/ AddFetches
    \/ \E i \in 1..MaxUrls : FetchReturns(i)
    \/ \E i \in 1..MaxUrls : FetchRaises(i)
    \/ DetailReturns
    \/ DetailTimeout

DetailSpec == DetailInit /\ [][DetailNext]_vars

\* the claimed order: by category, URLs sorted inside a category
Before(u, v) ==
    \/ CategoryRank(u.category) < CategoryRank(v.category)
    \/ u.category = v.category /\ u.path < v.path

SlotOf(u) == CHOOSE i \in 1..Len(detail.added) : detail.added[i] = u

Fetched == {detail.detail_urls[i] : i \in 1..Len(detail.detail_urls)}

WithValid(field) ==
    {u \in Fetched : /\ detail.results[SlotOf(u)].kind = "data"
                     /\ is_valid(detail.results[SlotOf(u)][field])}

Highest(field) == CHOOSE u \in WithValid(field) : \A v \in WithValid(field) : v = u \/ Before(u, v)

\* C20 as stated: the merged record keeps, for each field, the value of the
\* result that comes first in the order Fanza-TV, DMM-TV, digital, mono,
\* rental, prime, monthly (URLs sorted inside a category) among those with a
\* valid value for the field.
C20_Original ==
    detail.pc = "returned" =>
        \A field \in {"title", "trailer"} :
            WithValid(field) # {} =>
                /\ detail.res.kind = "data"
                /\ detail.res[field] = detail.results[SlotOf(Highest(field))][field]

\* the trailers the results offer that are not playlists
TrailerCandidates ==
    {detail.results[i].trailer : i \in {j \in 1..Len(detail.results) :
        /\ detail.results[j].kind = "data"
        /\ detail.results[j].trailer # NoTrailer
        /\ detail.results[j].trailer.ext # "m3u8"}}

\* C21: the trailer of the record the detail merge returns is never an .m3u8
\* playlist, and when some result offers a valid trailer that is not one, the
\* trailer chosen is such a candidate of maximal quality rank.
C21_BestTrailer ==
    detail.pc = "returned" =>
        /\ detail.res.trailer.ext # "m3u8"
        /\ TrailerCandidates # {} =>
              /\ detail.res.kind = "data"
              /\ detail.res.trailer \in TrailerCandidates
              /\ \A c \in TrailerCandidates :
                    trailer_quality_rank(detail.res.trailer) >= trailer_quality_rank(c)

\* the first result offers an sm trailer, the second one an hhbs trailer, and
\* the merged record has the hhbs one
C21_Witness ==
    /\ detail.pc = "returned"
    /\ Len(detail.results) = 2
    /\ detail.results[1].kind = "data" /\ detail.results[1].trailer.quality = "sm"
    /\ detail.results[2].kind = "data" /\ detail.results[2].trailer.quality = "hhbs"
    /\ detail.res.trailer = [quality |-> "hhbs", ext |-> "mp4"]

\* ------------------------------------------------- the DMM trailer refiner
MaxValid == 2

\* the quality tokens _trailer_quality_rank knows, aliases left out
QualityTokens == {"sm", "dm", "dmb", "mmb", "hmb", "mhb", "hhb", "4k"}

\* quality_levels of get_dmm_trailer, lowest first
quality_levels == <<"sm", "dm", "dmb", "mhb", "hhb", "4k">>

InLevels(q) == \E i \in 1..Len(quality_levels) : quality_levels[i] = q

LevelIndex(q) == CHOOSE i \in 1..Len(quality_levels) : quality_levels[i] = q

\* a trailer URL of .dmm.co: under /pv/{key}/ or under /litevideo/freepv/, the
\* file name in the old form cid_quality_suffix.mp4 or the new form
\* cidquality.mp4 (suffix "")
TrailerUrls ==
    {[base |-> b, quality |-> q, suffix |-> x] :
        b \in {"pv", "litevideo"}, q \in QualityTokens, x \in {"w", "s", "h", ""}}

\* the file names of one trailer in every quality, of the same form as u
Variants(u) ==
    {[quality |-> q, suffix |-> x] :
        q \in QualityTokens,
        x \in IF u.suffix = "" THEN {""} ELSE {"w", "s", "h"}}

\* the subsets of S of at most k elements
RECURSIVE SubsetsUpTo(_, _)
SubsetsUpTo(S, k) ==
    IF k = 0 THEN {{}}
    ELSE LET smaller == SubsetsUpTo(S, k - 1)
         IN  smaller \cup {p \cup {e} : p \in smaller, e \in S}

RefineInit ==
    /\ \E u \in TrailerUrls, head_ok \in BOOLEAN :
          \E valid \in SubsetsUpTo(Variants(u), MaxValid) :
              /\ refine = [pc |-> "call", trailer_url |-> u, head_ok |-> head_ok,
                           valid |-> valid, result |-> u]
    /\ WebUnused
    /\ EarlierUnused
    /\ softpage = Unused
    /\ route = Unused
    /\ download = Unused
    /\ sod = Unused
    /\ volume = Unused
    /\ mirror = Unused
    /\ bypass_log = Unused

\* a temporary /pv/ link is replaced by the litevideo URL of the same file
\* when the HEAD request on that URL is answered 2xx
Converted(u, head_ok) ==
    IF u.base = "pv" /\ head_ok THEN [u EXCEPT !.base = "litevideo"] ELSE u

\* suffix_candidates: the URL's own suffix first, then the other ones of w, s, h
SuffixRank(u, x) ==
    IF x = u.suffix THEN 0 ELSE CASE x = "w" -> 1 [] x = "s" -> 2 [] OTHER -> 3

\* check_url(test_url) is truthy
Validates(valid, q, x) == [quality |-> q, suffix |-> x] \in valid

\* the levels above the URL's own that have a file that validates
LevelsAbove(u, valid) ==
    {i \in 1..Len(quality_levels) :
        /\ i > LevelIndex(u.quality)
        /\ \E v \in Variants(u) : Validates(valid, quality_levels[i], v.suffix)}

\* for i in range(len(quality_levels) - 1, current_index, -1), for each
\* suffix: the first test URL that validates is returned
Upgrade(u, valid) ==
    IF ~InLevels(u.quality) \/ LevelsAbove(u, valid) = {} THEN u
    ELSE LET i == CHOOSE i \in LevelsAbove(u, valid) : \A j \in LevelsAbove(u, valid) : j <= i
             q == quality_levels[i]
             xs == {v.suffix : v \in {w \in Variants(u) : Validates(valid, q, w.suffix)}}
             x == CHOOSE x \in xs : \A y \in xs : SuffixRank(u, x) <= SuffixRank(u, y)
         IN  [u EXCEPT !.quality = q, !.suffix = x]

\* get_dmm_trailer(trailer_url) returns
Refine ==
    /\ refine.pc = "call"
    /\ refine' = [refine EXCEPT
                    !.pc = "done",
                    !.result = Upgrade(Converted(refine.trailer_url, refine.head_ok),
                                       refine.valid)]
    /\ UNCHANGED notrefine

RefineNext == Refine

RefineSpec == RefineInit /\ [][RefineNext]_vars

UrlRank(u) == trailer_quality_rank([quality |-> u.quality, ext |-> "mp4"])

\* the files of higher rank than the input that validate
HigherValid ==
    {v \in refine.valid : UrlRank(v) > UrlRank(refine.trailer_url)}

\* C22 as stated: for a trailer URL with a quality token of the ladder
\* sm < dm < dmb < mmb < hmb < mhb < hhb < 4k the refiner returns a variant of
\* highest rank among those that validate above the input, the input's own
\* file when none does, and never a URL of lower rank than the input.
C22_Original ==
    refine.pc = "done" =>
        /\ UrlRank(refine.result) >= UrlRank(refine.trailer_url)
        /\ IF HigherValid = {}
           THEN /\ refine.result.quality = refine.trailer_url.quality
                /\ refine.result.suffix = refine.trailer_url.suffix
           ELSE /\ [quality |-> refine.result.quality, suffix |-> refine.result.suffix]
                      \in HigherValid
                /\ \A v \in HigherValid : UrlRank(refine.result) >= UrlRank(v)

\* ------------------------------------------- MissAV: search or direct detail
UpperLetters ==
    <<"A", "B", "C", "D", "E", "F", "G", "H", "I", "J", "K", "L", "M", "N", "O", "P", "Q", "R", "S", "T", "U", "V", "W", "X", "Y", "Z">>

LowerLetters ==
    <<"a", "b", "c", "d", "e", "f", "g", "h", "i", "j", "k", "l", "m", "n", "o", "p", "q", "r", "s", "t", "u", "v", "w", "x", "y", "z">>

Letters == {LowerLetters[i] : i \in 1..26}

\* str.lower() on one character
LowerChar(c) ==
    IF \E i \in 1..26 : UpperLetters[i] = c
    THEN LowerLetters[CHOOSE i \in 1..26 : UpperLetters[i] = c]
    ELSE c

ToLower(s) == [i \in 1..Len(s) |-> LowerChar(s[i])]

\* str.strip()
Strip(s) ==
    LET kept == {i \in 1..Len(s) : s[i] # " "}
    IN  IF kept = {} THEN <<>>
        ELSE SubSeq(s, CHOOSE i \in kept : \A j \in kept : i <= j,
                       CHOOSE i \in kept : \A j \in kept : j <= i)

\* str.replace(old, new) for one character; new = "" removes it
RECURSIVE Replace(_, _, _)
Replace(s, old, new) ==
    IF s = <<>> THEN <<>>
    ELSE (IF Head(s) = old THEN (IF new = "" THEN <<>> ELSE <<new>>) ELSE <<Head(s)>>)
         \o Replace(Tail(s), old, new)

\* the length of the longest run of characters of set cs that starts at i
RECURSIVE Run(_, _, _)
Run(s, i, cs) ==
    IF i > Len(s) \/ s[i] \notin cs THEN 0 ELSE 1 + Run(s, i + 1, cs)

Min(a, b) == IF a < b THEN a ELSE b

\* CODE_PATTERN = ([a-z]{2,10})[-_ ]?(\d{2,6}) tried at position i: a run of
\* letters that is followed by fewer than two digits cannot be shortened into a
\* match, so the letters taken are the whole run from i
CodeMatchAt(s, i) ==
    LET n == Run(s, i, Letters)
        sep == IF i + n <= Len(s) /\ s[i + n] \in {"-", "_", " "}
                  /\ Run(s, i + n + 1, Digits) >= 2 THEN 1 ELSE 0
        d == Run(s, i + n + sep, Digits)
    IN  [ok |-> n >= 2 /\ n <= 10 /\ d >= 2,
         prefix |-> SubSeq(s, i, i + n - 1),
         digits |-> SubSeq(s, i + n + sep, i + n + sep + Min(d, 6) - 1)]

NoParts == [ok |-> FALSE]

\* MissavCrawler._parse_code_parts: the leftmost match of CODE_PATTERN
parse_code_parts(value) ==
    LET normalized == Replace(Replace(ToLower(Strip(value)), "_", "-"), " ", "")
        at == {i \in 1..Len(normalized) : CodeMatchAt(normalized, i).ok}
    IN  IF value = <<>> \/ at = {} THEN NoParts
        ELSE CodeMatchAt(normalized, CHOOSE i \in at : \A j \in at : i <= j)

\* str.lstrip("0")
RECURSIVE LStripZeros(_)
LStripZeros(s) ==
    IF s # <<>> /\ Head(s) = "0" THEN LStripZeros(Tail(s)) ELSE s

\* MissavCrawler._normalize_digits_for_number
normalize_digits_for_number(digits) ==
    LET stripped == LStripZeros(digits)
        digits_no_zero == IF stripped = <<>> THEN <<"0">> ELSE stripped
    IN  IF Len(digits_no_zero) < 3 /\ Len(digits) >= 3
        THEN [i \in 1..(3 - Len(digits_no_zero)) |-> "0"] \o digits_no_zero
        ELSE digits_no_zero

\* the length of the match of \d{6}[-_]\d{3,4} at the start of s, 0 for none
DatePrefixLen(s) ==
    IF /\ Run(s, 1, Digits) = 6
       /\ Len(s) >= 7 /\ s[7] \in {"-", "_"}
       /\ Run(s, 8, Digits) >= 3
    THEN 7 + Min(Run(s, 8, Digits), 4)
    ELSE 0

\* UNCENSORED_DATE_PATTERN.fullmatch
IsUncensoredDate(s) == DatePrefixLen(s) = Len(s) /\ Len(s) > 0

EndsWith(s, t) == Len(s) >= Len(t) /\ SubSeq(s, Len(s) - Len(t) + 1, Len(s)) = t

StartsWith(s, t) == Len(s) >= Len(t) /\ SubSeq(s, 1, Len(t)) = t

\* get_file_number(raw_number, []): the catalog number in upper case without the
\* suffix that marks a decensored or subtitled file
FileNumberSuffixes == {<<"-", "U", "C">>, <<"-", "U">>, <<"-", "C">>}

ToUpper(s) ==
    [i \in 1..Len(s) |->
        IF \E k \in 1..26 : LowerLetters[k] = s[i]
        THEN UpperLetters[CHOOSE k \in 1..26 : LowerLetters[k] = s[i]]
        ELSE s[i]]

get_file_number(raw_number) ==
    LET upper == ToUpper(raw_number)
        found == {t \in FileNumberSuffixes : EndsWith(upper, t)}
    IN  IF found = {} THEN upper
        ELSE LET t == CHOOSE t \in found : \A o \in found : Len(o) <= Len(t)
             IN  SubSeq(upper, 1, Len(upper) - Len(t))

\* the prefixes is_uncensored knows
UncensoredPrefixes == {<<"h", "e", "y", "z", "o">>, <<"c", "a", "r", "i", "b">>}

is_uncensored(normalized_number) ==
    \E p \in UncensoredPrefixes : StartsWith(normalized_number, p)

\* MissavCrawler._normalize_number_for_uncensored_judge; file_number_raises
\* says that get_file_number raised
normalize_number_for_uncensored_judge(input_number, file_number_raises) ==
    LET raw_number == Strip(input_number)
        from_file == IF file_number_raises THEN raw_number ELSE get_file_number(raw_number)
        normalized == Replace(ToLower(Strip(from_file)), "_", "-")
        parsed == parse_code_parts(normalized)
    IN  IF raw_number = <<>> \/ normalized = <<>> THEN <<>>
        ELSE IF parsed.ok
             THEN parsed.prefix \o <<"-">> \o normalize_digits_for_number(parsed.digits)
             ELSE IF DatePrefixLen(normalized) > 0
                  THEN SubSeq(normalized, 1, DatePrefixLen(normalized))
                  ELSE normalized

Mosaics == {"censored", "uncensored", "leaked"}

\* a variant that trusts the mosaic tag
should_use_uncensored_search_by_mosaic(input_number, mosaic, file_number_raises) ==
    mosaic = "uncensored"

\* MissavCrawler._should_use_uncensored_search
should_use_uncensored_search(input_number, mosaic, file_number_raises) ==
    LET normalized_number == normalize_number_for_uncensored_judge(input_number, file_number_raises)
    IN  /\ normalized_number # <<>>
        /\ \/ is_uncensored(normalized_number)
           \/ IsUncensoredDate(normalized_number)

\* a URL of base_url is its path, a sequence of segments
build_search_url(input_number) == <<[lit |-> "search"], [quoted |-> Strip(input_number)]>>

build_direct_detail_url(input_number) == <<[quoted |-> Strip(input_number)], [lit |-> "cn"]>>

\* MissavCrawler._is_search_mode_url: "/search/" in the path
is_search_mode_url(url) ==
    \E i \in 1..Len(url) : url[i] = [lit |-> "search"] /\ i < Len(url)

Numbers ==
    {<<>>, <<" ">>,
     <<"M", "I", "D", "V", "-", "9", "9", "9", "-", "U">>,
     <<"M", "I", "D", "V", "-", "0", "9", "9", "9", "-", "U", "C">>,
     <<"M", "I", "D", "V", "9", "9", "9", "U">>,
     <<"M", "I", "D", "V", "-", "9", "9", "9">>,
     <<"0", "1", "0", "1", "0", "1", "-", "1", "2", "3", "-", "U">>,
     <<"H", "E", "Y", "Z", "O", "-", "1", "2", "3", "4", "-", "U">>,
     <<"h", "e", "y", "z", "o", "_", "0", "0", "1", "2">>,
     <<"0", "1", "0", "1", "0", "1", "_", "1", "2", "3", "4">>,
     <<"0", "1", "0", "1", "0", "1", "-", "1", "2">>,
     <<"0", "1", "0", "1", "0", "1", "-", "1", "2", "3", "4", "5">>,
     <<" ", "0", "1", "0", "1", "0", "1", "-", "1", "2", "3", " ">>,
     <<"S", "N", "O", "S", "-", "0", "0", "4">>,
     <<"2", "5", "9", "L", "U", "X", "U", "-", "1", "2", "3", "4">>,
     <<"T", "2", "8", "-", "5", "5", "7">>}

NoUrl == <<>>

\* two lookups of one number under their own mosaic tags
RouteInit ==
    /\ \E n \in Numbers, m1 \in Mosaics, m2 \in Mosaics, r \in BOOLEAN :
          route = [number |-> n, file_number_raises |-> r,
                   call |-> [i \in 1..2 |->
                               [pc |-> "call", mosaic |-> IF i = 1 THEN m1 ELSE m2,
                                search_urls |-> NoUrl]]]
    /\ WebUnused
    /\ EarlierUnused
    /\ refine = Unused
    /\ softpage = Unused
    /\ download = Unused
    /\ sod = Unused
    /\ volume = Unused
    /\ mirror = Unused
    /\ bypass_log = Unused

\* MissavCrawler._generate_search_url raises on an empty number
GenerateRaises(i) ==
    /\ route.call[i].pc = "call"
    /\ Strip(route.number) = <<>>
    /\ route' = [route EXCEPT !.call[i].pc = "raised"]
    /\ UNCHANGED notroute

\* MissavCrawler._generate_search_url returns one URL
GenerateReturns(i) ==
    /\ route.call[i].pc = "call"
    /\ Strip(route.number) # <<>>
    /\ route' = [route EXCEPT
                   !.call[i].pc = "returned",
                   !.call[i].search_urls =
                       IF should_use_uncensored_search(Strip(route.number),
                              route.call[i].mosaic, route.file_number_raises)
                       THEN build_search_url(Strip(route.number))
                       ELSE build_direct_detail_url(Strip(route.number))]
    /\ UNCHANGED notroute

RouteNext == \E i \in 1..2 : GenerateRaises(i) \/ GenerateReturns(i)

RouteSpec == RouteInit /\ [][RouteNext]_vars

\* the number of a lookup normalises to an uncensored form: six digits, "-" or
\* "_", three or four digits, or a known uncensored prefix
NormalizesToUncensored ==
    LET n == normalize_number_for_uncensored_judge(route.number, route.file_number_raises)
    IN  \/ /\ Len(n) \in {10, 11}
           /\ \A k \in 1..Len(n) : IF k = 7 THEN n[k] \in {"-", "_"} ELSE n[k] \in Digits
        \/ \E p \in UncensoredPrefixes : Len(n) >= Len(p) /\ \A k \in 1..Len(p) : n[k] = p[k]

\* C24: a lookup whose number normalises to an uncensored form gets a search
\* URL, every other lookup with a non-empty number gets a direct detail URL,
\* and two lookups of the same number under different mosaic tags get the
\* same URL.
C24_RoutedByNumberOnly ==
    /\ \A i \in 1..2 :
          route.call[i].pc = "returned" =>
              /\ is_search_mode_url(route.call[i].search_urls) <=> NormalizesToUncensored
              /\ ~is_search_mode_url(route.call[i].search_urls) =>
                    route.call[i].search_urls = <<[quoted |-> Strip(route.number)], [lit |-> "cn"]>>
    /\ (route.call[1].pc = "returned" /\ route.call[2].pc = "returned") =>
          route.call[1].search_urls = route.call[2].search_urls

C24_Witness ==
    /\ route.call[1].pc = "returned" /\ route.call[2].pc = "returned"
    /\ route.call[1].mosaic = "censored" /\ route.call[2].mosaic = "uncensored"
    /\ is_search_mode_url(route.call[1].search_urls)
    /\ route.number = <<"0", "1", "0", "1", "0", "1", "-", "1", "2", "3", "-", "U">>

\* ------------------------------------------------ MissAV: the detail page
MaxWords == 3

\* a text of the page is a sequence of words; str.lower() on one word
LowerWord(w) ==
    CASE w = "Not" -> "not" [] w = "Found" -> "found" [] w = "Page" -> "page"
      [] w = "MissAV" -> "missav" [] w = "Free" -> "free" [] w = "JAV" -> "jav"
      [] w = "Online" -> "online" [] w = "Streaming" -> "streaming"
      [] w = "SNOS-004" -> "snos-004" [] w = "Error404" -> "error404"
      [] OTHER -> w

LowerText(t) == [i \in 1..Len(t) |-> LowerWord(t[i])]

\* marker in text: the words of marker stand next to each other in text
Contains(text, marker) ==
    \E i \in 1..(Len(text) - Len(marker) + 1) :
        SubSeq(text, i, i + Len(marker) - 1) = marker

\* SOFT_404_TITLE_MARKERS, the Chinese and Japanese ones romanised
SOFT_404_TITLE_MARKERS ==
    {<<"missav", "|", "mianfei-gaoqing-av-zaixiankan">>,
     <<"missav", "|", "free", "jav", "online", "streaming">>,
     <<"missav", "|", "muryou-ero-douga-mihoudai">>}

\* SOFT_404_TEXT_MARKERS, the Chinese ones romanised
SOFT_404_TEXT_MARKERS ==
    {<<"zhaobudao-yemian">>, <<"page", "not", "found">>, <<"not", "found">>}

\* " ".join(texts)
RECURSIVE Join(_)
Join(texts) == IF texts = <<>> THEN <<>> ELSE Head(texts) \o Join(Tail(texts))

\* extract_text(html, first, second): the first expression that yields text
extract_text(first, second) == IF first # <<>> THEN first ELSE second

\* the first rule alone
is_soft_404_page_by_text(html) ==
    LET text_blob == Join([i \in 1..Len(html.h1) |-> LowerText(html.h1[i])]
                          \o [i \in 1..Len(html.p) |-> LowerText(html.p[i])])
    IN  /\ \E m \in SOFT_404_TEXT_MARKERS : Contains(text_blob, m)
        /\ \E i \in 1..Len(text_blob) : text_blob[i] = "404"

\* MissavCrawler._is_soft_404_page
is_soft_404_page(html) ==
    LET og_title == LowerText(extract_text(html.og_title, html.title))
        og_image == html.og_image
        text_blob == Join([i \in 1..Len(html.h1) |-> LowerText(html.h1[i])]
                          \o [i \in 1..Len(html.p) |-> LowerText(html.p[i])])
        has_404_code == \E i \in 1..Len(text_blob) : text_blob[i] = "404"
        has_not_found_text == \E m \in SOFT_404_TEXT_MARKERS : Contains(text_blob, m)
        is_generic_title == \E m \in SOFT_404_TITLE_MARKERS : Contains(og_title, m)
        is_logo_thumb == og_image = "logo-square.png"
    IN  IF has_not_found_text /\ has_404_code THEN TRUE
        ELSE is_generic_title /\ is_logo_thumb /\ has_404_code

\* the not-found template of the site in its three languages, with or without
\* the og:title meta
NotFoundPages ==
    {[kind |-> "not_found",
      og_title |-> IF og THEN t[1] ELSE <<>>, title |-> t[1],
      og_image |-> "logo-square.png",
      h1 |-> <<t[2]>>, p |-> <<<<"404">>>>, slug |-> s] :
        t \in {<<<<"MissAV", "|", "mianfei-gaoqing-av-zaixiankan">>, <<"zhaobudao-yemian">>>>,
               <<<<"MissAV", "|", "Free", "JAV", "Online", "Streaming">>, <<"Page", "Not", "Found">>>>,
               <<<<"MissAV", "|", "muryou-ero-douga-mihoudai">>, <<"peeji-ga-mitsukarimasen">>>>},
        og \in BOOLEAN,
        s \in {<<"s", "n", "o", "s", "-", "0", "0", "4">>}}

TitleWords == {"SNOS-004", "404", "Not", "Found"}

VideoTitles == UNION {[1..n -> TitleWords] : n \in 1..MaxWords}

\* the detail page of a video: its own title, its cover, its title as the
\* heading and one paragraph
VideoPages ==
    {[kind |-> "detail",
      og_title |-> t \o <<"-", "MissAV">>, title |-> t \o <<"-", "MissAV">>,
      og_image |-> "cover-n.jpg",
      h1 |-> <<t>>, p |-> <<para>>, slug |-> s] :
        t \in VideoTitles,
        para \in {<<"Release:", "2024-01-01">>, <<"404">>, <<"Error404">>},
        s \in {<<"s", "n", "o", "s", "-", "0", "0", "4">>, <<"0", "1", "0", "1", "0", "1", "-", "1", "2", "3">>}}

InputNumbers == {<<"S", "N", "O", "S", "-", "0", "0", "4">>, <<"A", "B", "C", "-", "1", "2", "3">>, <<"0", "1", "0", "1", "0", "1", "-", "1", "2", "3", "-", "U">>, <<"0", "1", "0", "1", "0", "1", "-", "1", "2", "3">>}

NoData == [title |-> <<>>, number |-> <<>>]

SoftpageInit ==
    /\ \E html \in NotFoundPages \cup VideoPages, n \in InputNumbers, r \in BOOLEAN :
          softpage = [pc |-> "call", html |-> html, input_number |-> n,
                      file_number_raises |-> r,
                      parser_calls |-> 0, data |-> NoData]
    /\ WebUnused
    /\ EarlierUnused
    /\ refine = Unused
    /\ route = Unused
    /\ download = Unused
    /\ sod = Unused
    /\ volume = Unused
    /\ mirror = Unused
    /\ bypass_log = Unused

\* MissavCrawler._normalize_keyword
normalize_keyword(value) ==
    LET low == ToLower(value)
    IN  SelectSeq(low, LAMBDA c : c \in Letters \cup Digits)

\* MissavCrawler._code_from_value
code_from_value(value) ==
    LET parsed == parse_code_parts(value)
    IN  IF ~parsed.ok THEN <<>>
        ELSE normalize_keyword(parsed.prefix \o <<"-">>
                               \o normalize_digits_for_number(parsed.digits))

\* MissavCrawler._normalize_number_case
normalize_number_case(value) == ToUpper(Strip(value))

\* the page is the not-found template: the crawler raises, the parser is not
\* called
ParseRaisesNotFound ==
    /\ softpage.pc = "call"
    /\ is_soft_404_page(softpage.html)
    /\ softpage' = [softpage EXCEPT !.pc = "not_found"]
    /\ UNCHANGED notsoftpage

\* what _parse_detail_page does with the parsed record: the code of the page
\* is compared with the code of the input, the number is taken from the slug,
\* and a number searched as uncensored must appear in the slug
AfterParse(s, data) ==
    LET input_code == code_from_value(s.input_number)
        canonical_code == code_from_value(s.html.slug)
        data_code == code_from_value(data.number)
        target_code == IF canonical_code # <<>> THEN canonical_code ELSE data_code
        canonical_number == normalize_number_case(s.html.slug)
        numbered == IF canonical_number # <<>>
                    THEN [data EXCEPT !.number = canonical_number] ELSE data
        expected_keyword == Replace(ToLower(Strip(s.input_number)), "_", "-")
        detail_slug == Replace(ToLower(s.html.slug), "_", "-")
    IN  IF input_code # <<>> /\ target_code # <<>> /\ input_code # target_code
        THEN [s EXCEPT !.pc = "mismatch", !.parser_calls = @ + 1]
        ELSE IF /\ should_use_uncensored_search(s.input_number, "", s.file_number_raises)
                /\ expected_keyword # <<>>
                /\ ~Contains(detail_slug, expected_keyword)
             THEN [s EXCEPT !.pc = "slug_mismatch", !.parser_calls = @ + 1]
             ELSE [s EXCEPT !.pc = "returned", !.parser_calls = @ + 1, !.data = numbered]

\* the page is parsed; Parser.title reads og:title or else the heading,
\* Parser.number the code row of the page or else the number of the input
ParseDetailPage ==
    /\ softpage.pc = "call"
    /\ ~is_soft_404_page(softpage.html)
    /\ \E found \in BOOLEAN :
          softpage' = AfterParse(softpage,
                          [title |-> extract_text(softpage.html.og_title, softpage.html.h1[1]),
                           number |-> IF found THEN ToUpper(softpage.html.slug)
                                      ELSE softpage.input_number])
    /\ UNCHANGED notsoftpage

SoftpageNext == ParseRaisesNotFound \/ ParseDetailPage

SoftpageSpec == SoftpageInit /\ [][SoftpageNext]_vars

Parsed == softpage.pc \notin {"unused", "call"}

\* a not-found page is never parsed for fields
NotFoundNeverParsed ==
    (Parsed /\ softpage.html.kind = "not_found") =>
        /\ softpage.pc = "not_found"
        /\ softpage.parser_calls = 0
        /\ softpage.data = NoData

\* the words of the headings and paragraphs, in lower case
VisibleText ==
    Join([i \in 1..Len(softpage.html.h1) |-> LowerText(softpage.html.h1[i])]
         \o [i \in 1..Len(softpage.html.p) |-> LowerText(softpage.html.p[i])])

\* C23 as stated: a not-found page makes the crawler raise its not-found
\* error before the field parser is called, so that no field of it is parsed
\* or returned, and the detail page of a video is not classified as not found.
C23_Original ==
    /\ NotFoundNeverParsed
    /\ (Parsed /\ softpage.html.kind = "detail") => softpage.pc # "not_found"

\* C23 amended: a not-found page makes the crawler raise its not-found error
\* before the field parser is called, so that no field of it is parsed or
\* returned, and the detail page of a video is not classified as not found
\* unless its headings and paragraphs carry both a 404 token and a not-found
\* phrase.
C23_Amended ==
    /\ NotFoundNeverParsed
    /\ (/\ Parsed
        /\ softpage.html.kind = "detail"
        /\ ~(/\ \E i \in 1..Len(VisibleText) : VisibleText[i] = "404"
             /\ \E m \in SOFT_404_TEXT_MARKERS : Contains(VisibleText, m)))
       => softpage.pc # "not_found"

C23_Witness ==
    /\ softpage.pc = "not_found"
    /\ softpage.html.kind = "not_found"
    /\ softpage.html.h1 = <<<<"peeji-ga-mitsukarimasen">>>>
    /\ softpage.parser_calls = 0

\* ------------------------------------------------------ download(url, path)
\* one mebibyte, in the unit the sizes of the model are counted in
MB == 2
MaxSize == 7

\* HEAD gave no usable Content-Length
NoSize == -1

ChunkConcurrency == 10

\* Path.suffix: the last dot of the name and what follows it; none for a name
\* without a dot or with the only dot in front
PathSuffix(file_path) ==
    LET dots == {i \in 2..Len(file_path) : file_path[i] = "."}
    IN  IF dots = {} THEN <<>>
        ELSE SubSeq(file_path, CHOOSE i \in dots : \A j \in dots : j <= i, Len(file_path))

DownloadUrls == {<<"a", ".", "w", "e", "b", "p", "?", "x">>, <<"a", ".", "j", "p", "g">>}

DownloadPaths == {<<"b", ".", "j", "p", "g">>, <<"b", ".", "p", "n", "g">>}

\* file_path.suffix == "jpg" and ".webp" in url
IsWebp(url, file_path) ==
    PathSuffix(file_path) = <<"j", "p", "g">> /\ Contains(url, <<".", "w", "e", "b", "p">>)

\* parts of _download_chunks: (start, end) for start in range(0, file_size, each_size)
Parts(file_size) ==
    LET each_size == Min(1 * MB, file_size)
        n == (file_size + each_size - 1) \div each_size
    IN  [i \in 1..n |-> [start |-> (i - 1) * each_size,
                         end |-> Min((i - 1) * each_size + each_size, file_size),
                         st |-> "pending"]]

\* the file before anything is written: absent
NoFile == [o \in {} |-> 0]

\* file_size > 2 MB and not webp
UseChunks(file_size, webp) == file_size # NoSize /\ file_size # 0 /\ file_size > 2 * MB /\ ~webp

DownloadInit ==
    /\ \E url \in DownloadUrls, file_path \in DownloadPaths,
          size \in {NoSize} \cup 0..MaxSize :
          download = [pc |-> "call", url |-> url, file_path |-> file_path,
                      head |-> size, webp |-> FALSE, mode |-> "none",
                      chunk |-> <<>>, semaphore |-> ChunkConcurrency,
                      file |-> NoFile, written |-> "none", result |-> FALSE]
    /\ WebUnused
    /\ EarlierUnused
    /\ refine = Unused
    /\ softpage = Unused
    /\ route = Unused
    /\ sod = Unused
    /\ volume = Unused
    /\ mirror = Unused
    /\ bypass_log = Unused

\* download() up to the call of _download_chunks, which creates the file
\* with file_size zero bytes or returns False when that raises
StartChunks ==
    /\ download.pc = "call"
    /\ UseChunks(download.head, IsWebp(download.url, download.file_path))
    /\ \E created \in BOOLEAN :
          download' = [download EXCEPT
              !.webp = IsWebp(download.url, download.file_path),
              !.mode = "chunked",
              !.pc = IF created THEN "chunks" ELSE "returned",
              !.chunk = IF created THEN Parts(download.head) ELSE <<>>,
              !.file = IF created THEN [o \in 0..(download.head - 1) |-> -1] ELSE NoFile,
              !.result = FALSE]
    /\ UNCHANGED notdownload

\* download() in one shot: get_content, then the bytes are written as they
\* are, or decoded and saved as JPEG for a webp
SingleShot ==
    /\ download.pc = "call"
    /\ ~UseChunks(download.head, IsWebp(download.url, download.file_path))
    /\ \E content \in BOOLEAN, raises \in BOOLEAN :
          download' = [download EXCEPT
              !.webp = IsWebp(download.url, download.file_path),
              !.mode = "single",
              !.pc = "returned",
              !.written = IF ~content \/ raises THEN "none"
                          ELSE IF IsWebp(download.url, download.file_path) THEN "jpeg"
                          ELSE "raw",
              !.result = content /\ ~raises]
    /\ UNCHANGED notdownload

\* _download_chunk enters the semaphore and sends its range request
ChunkRequest(i) ==
    /\ download.pc = "chunks"
    /\ download.chunk[i].st = "pending"
    /\ download.semaphore > 0
    /\ download' = [download EXCEPT !.chunk[i].st = "requesting", !.semaphore = @ - 1]
    /\ UNCHANGED notdownload

\* the request gave no response: the task returns the error text
ChunkFails(i) ==
    /\ download.pc = "chunks"
    /\ download.chunk[i].st = "requesting"
    /\ download' = [download EXCEPT !.chunk[i].st = "failed", !.semaphore = @ + 1]
    /\ UNCHANGED notdownload

\* the request gave a response and the semaphore is left
ChunkResponds(i) ==
    /\ download.pc = "chunks"
    /\ download.chunk[i].st = "requesting"
    /\ download' = [download EXCEPT !.chunk[i].st = "responded", !.semaphore = @ + 1]
    /\ UNCHANGED notdownload

\* Range: bytes=start-end names both ends, so the body of a chunk runs to
\* offset end or the last byte of the file; it is written from offset start.
\* A byte of the file holds the offset of the byte of the resource it came from
ChunkWrites(i) ==
    /\ download.pc = "chunks"
    /\ download.chunk[i].st = "responded"
    /\ LET c == download.chunk[i]
           last == Min(c.end, download.head - 1)
       IN  download' = [download EXCEPT
              !.chunk[i].st = "written",
              !.file = [o \in DOMAIN download.file |->
                           IF o >= c.start /\ o <= last THEN o ELSE download.file[o]]]
    /\ UNCHANGED notdownload

\* opening the file, seeking or writing raises
ChunkWriteRaises(i) ==
    /\ download.pc = "chunks"
    /\ download.chunk[i].st = "responded"
    /\ download' = [download EXCEPT !.chunk[i].st = "raised"]
    /\ UNCHANGED notdownload

ChunkDone(c) == c.st \in {"failed", "written", "raised"}

\* a variant that looks at the returned error texts only
ChunksResultIgnoringExceptions(chunk) ==
    \A i \in 1..Len(chunk) : chunk[i].st # "failed"

\* the loop over the gathered results: an exception or a non-empty error text
\* makes the download fail
ChunksResult(chunk) ==
    \A i \in 1..Len(chunk) : chunk[i].st \notin {"failed", "raised"}

\* asyncio.gather has every task's result: _download_chunks returns
ChunksReturn ==
    /\ download.pc = "chunks"
    /\ \A i \in 1..Len(download.chunk) : ChunkDone(download.chunk[i])
    /\ download' = [download EXCEPT !.pc = "returned",
                                    !.result = ChunksResult(download.chunk)]
    /\ UNCHANGED notdownload

DownloadNext ==
    \/ StartChunks
    \/ SingleShot
    \/ \E i \in 1..(MaxSize + 1) :
          /\ download.pc = "chunks"
          /\ i <= Len(download.chunk)
          /\ \/ ChunkRequest(i)
             \/ ChunkFails(i)
             \/ ChunkResponds(i)
             \/ ChunkWrites(i)
             \/ ChunkWriteRaises(i)
    \/ ChunksReturn

DownloadSpec == DownloadInit /\ [][DownloadNext]_vars

\* the path ends in .jpg and the URL has .webp in it
JpgFromWebp ==
    /\ Len(download.file_path) >= 4
    /\ SubSeq(download.file_path, Len(download.file_path) - 3, Len(download.file_path))
          = <<".", "j", "p", "g">>
    /\ \E i \in 1..(Len(download.url) - 4) : SubSeq(download.url, i, i + 4) = <<".", "w", "e", "b", "p">>

\* C25 as stated: a download to a path with suffix .jpg from a URL containing
\* .webp never goes through the chunked mode and never writes the raw bytes;
\* when it succeeds the file holds the image re-encoded as JPEG.
C25_Original ==
    (download.pc # "unused" /\ JpgFromWebp) =>
        /\ download.mode # "chunked"
        /\ download.written # "raw"
        /\ (download.pc = "returned" /\ download.result) => download.written = "jpeg"

MaxBytes == 4

Studios == {<<"S", "O", "D">>, <<"S", "O", "D", "c", "r", "e", "a", "t", "e">>, <<"s", "o", "d">>, <<"P", "r", "e", "s", "t", "i", "g", "e">>}

Titles == {<<"F", "i", "l", "m">>, <<"V", "R", " ", "F", "i", "l", "m">>, <<"v", "r", " ", "F", "i", "l", "m">>}

\* what _get_url_content_length gives: no size, or the Content-Length
Lengths == {NoSize} \cup 0..MaxBytes

SodInit ==
    /\ \E site \in {"dmm", "avbase"}, studio \in Studios, title \in Titles,
          poster \in BOOLEAN, thumb \in BOOLEAN, ps \in Lengths, pl \in Lengths :
          /\ site = "dmm" => poster = thumb
          /\ sod = [pc |-> "call", site |-> site, studio |-> studio, title |-> title,
                    poster |-> poster, thumb |-> thumb,
                    ps_size |-> ps, pl_size |-> pl,
                    image_download |-> FALSE, compared |-> FALSE]
    /\ WebUnused
    /\ EarlierUnused
    /\ refine = Unused
    /\ softpage = Unused
    /\ route = Unused
    /\ download = Unused
    /\ volume = Unused
    /\ mirror = Unused
    /\ bypass_log = Unused

\* `if ps_size and pl_size`
BothSizes(s) == s.ps_size # NoSize /\ s.ps_size # 0 /\ s.pl_size # NoSize /\ s.pl_size # 0

\* a variant that crops only when ps is below a quarter of pl
PosterFarTooSmall(s) == 4 * s.ps_size < s.pl_size

\* ps_size < pl_size * 0.5
PosterTooSmall(s) == 2 * s.ps_size < s.pl_size

\* the image part of post_process, given the crawler's own two tests
ImageDownload(s, is_sod_studio, is_vr_title, raises) ==
    IF is_sod_studio /\ s.poster /\ s.thumb /\ ~raises /\ BothSizes(s) /\ PosterTooSmall(s)
    THEN is_vr_title
    ELSE is_vr_title \/ is_sod_studio

\* DmmCrawler.post_process: the tests are on the texts as they are, and an
\* exception of the size requests is caught
DmmImageDownload ==
    /\ sod.pc = "call"
    /\ sod.site = "dmm"
    /\ \E raises \in BOOLEAN :
          sod' = [sod EXCEPT
                    !.pc = "done",
                    !.compared = ~raises,
                    !.image_download =
                        ImageDownload(sod, Contains(sod.studio, <<"S", "O", "D">>),
                                      Contains(sod.title, <<"V", "R">>), raises)]
    /\ UNCHANGED notsod

\* AvbaseCrawler.post_process: the tests are on the texts in upper case
AvbaseImageDownload ==
    /\ sod.pc = "call"
    /\ sod.site = "avbase"
    /\ sod' = [sod EXCEPT
                 !.pc = "done",
                 !.compared = TRUE,
                 !.image_download =
                     ImageDownload(sod, Contains(ToUpper(sod.studio), <<"S", "O", "D">>),
                                   Contains(ToUpper(sod.title), <<"V", "R">>), FALSE)]
    /\ UNCHANGED notsod

SodNext == DmmImageDownload \/ AvbaseImageDownload

SodSpec == SodInit /\ [][SodNext]_vars

\* both images have a URL, the size requests went through, and both sizes
\* came back
SizesObtained ==
    /\ sod.poster /\ sod.thumb
    /\ sod.compared
    /\ sod.ps_size # NoSize /\ sod.pl_size # NoSize

StudioHasSOD == \E i \in 1..(Len(sod.studio) - 2) : SubSeq(sod.studio, i, i + 2) = <<"S", "O", "D">>

TitleHasVR == \E i \in 1..(Len(sod.title) - 1) : SubSeq(sod.title, i, i + 1) = <<"V", "R">>

TitleHasVRInAnyCase ==
    \E i \in 1..(Len(sod.title) - 1) :
        /\ sod.title[i] \in {"V", "v"}
        /\ sod.title[i + 1] \in {"R", "r"}

\* C27 as stated: for a record whose studio contains SOD and whose title does
\* not contain VR, image_download is false after post_process exactly when
\* both byte sizes were obtained and ps is smaller than half of pl, and true
\* otherwise.
C27_Original ==
    (sod.pc = "done" /\ StudioHasSOD /\ ~TitleHasVR) =>
        (~sod.image_download <=> (SizesObtained /\ 2 * sod.ps_size < sod.pl_size))

\* C27 amended: for a record whose studio contains SOD and whose title does
\* not contain VR (for AVBase: in any letter case), image_download is false
\* after post_process exactly when both byte sizes were obtained, neither is
\* zero, and ps is smaller than half of pl, and true otherwise.
C27_Amended ==
    (/\ sod.pc = "done"
     /\ StudioHasSOD
     /\ ~TitleHasVR
     /\ sod.site = "avbase" => ~TitleHasVRInAnyCase) =>
        (~sod.image_download <=>
            (SizesObtained /\ sod.ps_size # 0 /\ sod.pl_size # 0
             /\ 2 * sod.ps_size < sod.pl_size))

C27_Witness ==
    /\ sod.pc = "done"
    /\ sod.site = "dmm"
    /\ StudioHasSOD /\ ~TitleHasVRInAnyCase
    /\ SizesObtained
    /\ sod.ps_size = 1 /\ sod.pl_size = 3
    /\ ~sod.image_download

\* ----------------------------------------------- AVBase: the runtime text
MaxHours == 2

DigitChars == <<"0", "1", "2", "3", "4", "5", "6", "7", "8", "9">>

\* str(n) of a natural number
RECURSIVE Decimal(_)
Decimal(n) ==
    IF n < 10 THEN <<DigitChars[n + 1]>>
    ELSE Decimal(n \div 10) \o <<DigitChars[(n % 10) + 1]>>

\* the label in front of the value on the page, romanised, or none
RuntimeLabels == {<<>>, <<"s", "h", "u", "u", "r", "o", "k", "u", "-", "f", "u", "n", "s", "u", "u", " ">>}

MinuteTexts == {<<"5", "5">>, <<"5">>, <<"1", "2", "0">>, <<"0", "6", "5">>}

\* the texts the parser is given: nothing, a word, a number of minutes, or a
\* duration H:MM:SS, with or without the label
RuntimeInputs ==
    {[kind |-> "other", raw |-> r, h |-> 0, m |-> 0, s |-> 0] : r \in {<<>>, <<" ">>, <<"u", "n", "k", "n", "o", "w", "n">>}}
    \cup {[kind |-> "minutes", raw |-> l \o t, h |-> 0, m |-> 0, s |-> 0] :
            l \in RuntimeLabels, t \in MinuteTexts}
    \cup {[kind |-> "duration",
           raw |-> l \o (IF pad THEN <<"0">> ELSE <<>>) \o Decimal(h) \o <<":">>
                     \o Pad2(Decimal(m)) \o <<":">> \o Pad2(Decimal(s)),
           h |-> h, m |-> m, s |-> s] :
            l \in RuntimeLabels, pad \in BOOLEAN, h \in 0..MaxHours,
            m \in {0, 5, 55}, s \in {0, 30}}

VolumeInit ==
    /\ \E i \in RuntimeInputs : volume = [pc |-> "call", input |-> i, runtime |-> <<>>]
    /\ WebUnused
    /\ EarlierUnused
    /\ refine = Unused
    /\ softpage = Unused
    /\ route = Unused
    /\ download = Unused
    /\ sod = Unused
    /\ mirror = Unused
    /\ bypass_log = Unused

\* AvbaseCrawler._parse_runtime: the first run of digits of the text, the
\* text itself when it has none
parse_runtime(raw) ==
    LET text == Strip(raw)
        at == {i \in 1..Len(text) : text[i] \in Digits}
    IN  IF text = <<>> THEN <<>>
        ELSE IF at = {} THEN text
        ELSE LET i == CHOOSE i \in at : \A j \in at : i <= j
             IN  SubSeq(text, i, i + Run(text, i, Digits) - 1)

ParseRuntime ==
    /\ volume.pc = "call"
    /\ volume' = [volume EXCEPT !.pc = "done", !.runtime = parse_runtime(volume.input.raw)]
    /\ UNCHANGED notvolume

VolumeNext == ParseRuntime

VolumeSpec == VolumeInit /\ [][VolumeNext]_vars

\* the minutes of a duration: whole minutes, and 1 for less than a minute
WholeMinutes(i) ==
    IF i.h * 60 + i.m = 0 /\ i.s > 0 THEN 1 ELSE i.h * 60 + i.m

\* C28 as stated: the runtime parser returns a digits-only string of whole
\* minutes: a number of minutes as it is, a duration H:MM:SS as its minutes
\* (0:55:00 gives 55, 1:05:30 gives 65, less than a minute gives 1).
C28_Original ==
    volume.pc = "done" =>
        /\ \A k \in 1..Len(volume.runtime) : volume.runtime[k] \in Digits
        /\ volume.input.kind = "minutes" =>
              volume.runtime = SubSeq(volume.input.raw,
                                      Len(volume.input.raw) - Len(volume.runtime) + 1,
                                      Len(volume.input.raw))
        /\ volume.input.kind = "duration" =>
              volume.runtime = Decimal(WholeMinutes(volume.input))

\* ------------------------------------------- the coordinator's cooldown
\* the coordinator calls of task t that have returned
CoordinatorReturns(t) ==
    task[t].bypass_calls
        - (IF task[t].pc \in {"lock"} \cup CoordinatorPcs THEN 1 ELSE 0)

\* the mirror calls of task t that have returned
MirrorReturns(t) == task[t].mirror_calls - (IF task[t].pc = "mirror" THEN 1 ELSE 0)

\* C29: as long as every mirror call gave a response, every coordinator call
\* of every caller returned a response with an empty error and made one mirror
\* call of its own; a caller held back by the cooldown is neither failed nor
\* skipped.
C29_EveryCallerServed ==
    \A t \in Tasks :
        task[t].mirror_ok = MirrorReturns(t) =>
            /\ task[t].bypass_ok = CoordinatorReturns(t)
            /\ task[t].mirror_calls =
                  task[t].bypass_calls - (IF task[t].pc \in {"lock", "cooldown"} THEN 1 ELSE 0)

\* two concurrent calls for one host, each served by a mirror call of its own
C29_Witness ==
    /\ Cardinality(Callers) = 2
    /\ \A t \in Callers : /\ task[t].host = "h1"
                          /\ task[t].pc = "done"
                          /\ task[t].bypass_calls = 1
                          /\ task[t].mirror_calls = 1
                          /\ task[t].mirror_ok = 1
                          /\ task[t].bypass_ok = 1
                          /\ task[t].ret_resp.via = "mirror"
                          /\ task[t].ret_error = ""

\* C30: a caller leaves the cooldown only by starting a bypass attempt of its
\* own, never with an error, and only when no attempt was started for the host
\* before or the last one started at least cf_bypass_min_interval ago.
C30_AttemptsApart ==
    [][\A t \in Tasks :
          (task[t].pc = "cooldown" /\ task'[t].pc \notin {"cooldown", "cancelled"}) =>
              /\ \/ cf_last_bypass_attempt_age[task[t].host] = Never
                 \/ cf_last_bypass_attempt_age[task[t].host] >= cf_bypass_min_interval
              /\ task'[t].pc = "mirror"
              /\ task'[t].mirror_calls = task[t].mirror_calls + 1
              /\ cf_last_bypass_attempt_age'[task[t].host] = 0]_vars

\* a second attempt for a host has just started after an earlier caller's
\* attempt, and that caller was served
C30_Witness ==
    \E a, b \in Tasks :
        /\ a # b
        /\ task[a].host = task[b].host
        /\ task[a].pc = "done" /\ task[a].mirror_calls >= 1
        /\ task[b].pc = "mirror" /\ task[b].mirror_calls = 1 /\ ~task[b].refresh
        /\ cf_last_bypass_attempt_age[task[b].host] = 0

\* the step in which the coordinator call of task t returned a response
BypassResponded(t) == task'[t].bypass_ok = task[t].bypass_ok + 1

\* C31: when the coordinator called for a challenged attempt returns a response
\* with a success status (2xx, or 302 with Location), request() returns that
\* response with an empty error in the same step, having sent no request to the
\* target since the challenged one; a call that has returned does nothing more.
C31_BypassResponseReturned ==
    [][\A t \in Tasks :
          /\ (BypassResponded(t) /\ SuccessStatus(task'[t].bypass_resp)) =>
                /\ task[t].pc \in {"mirror", "html"}
                /\ task'[t].pc = "done"
                /\ task'[t].ret_resp = task'[t].bypass_resp
                /\ task'[t].ret_resp.via \in {"mirror", "html"}
                /\ task'[t].ret_error = ""
                /\ task'[t].http_calls = task[t].http_calls
          /\ (task[t].pc = "done" => task'[t] = task[t])]_vars

\* a call whose first attempt met a challenge page and that returned the
\* mirror's 200 after one request to the target
C31_Witness ==
    \E t \in Tasks : /\ task[t].pc = "done"
                     /\ task[t].bypass_ok = 1
                     /\ task[t].bypass_resp.status = 200
                     /\ task[t].ret_resp = task[t].bypass_resp
                     /\ task[t].ret_resp.via = "mirror"
                     /\ task[t].ret_error = ""
                     /\ task[t].http_calls = 1
                     /\ retry_count = MaxRetry
\* the sleep after attempt k (counted from 0), in tenths of a second
BackoffAfter(k) == {(3 * k + 2) * 10 + j : j \in 0..4}

\* C32: the k-th sleep of a call lasts 3k+2 seconds plus at most 0.4 s, after a
\* failed bypass as after any other failure; while attempt k runs k sleeps
\* have been made, a sleep under way follows an attempt that is not the last,
\* and a call that returned made one sleep fewer than attempts.
C32_OneSleepBetweenAttempts ==
    \A t \in Tasks :
        LET r == task[t] IN
        /\ \A k \in 1..Len(r.sleep_calls) : r.sleep_calls[k] \in BackoffAfter(k - 1)
        /\ (r.pc \in AwaitPcs \ {"sleep"} => Len(r.sleep_calls) = r.attempt)
        /\ (r.pc = "sleep" => /\ Len(r.sleep_calls) = r.attempt + 1
                              /\ r.attempt < retry_count - 1
                              /\ r.http_calls = r.attempt + 1)
        /\ (r.pc = "done" => Len(r.sleep_calls) =
                                IF r.http_calls = 0 THEN 0 ELSE r.http_calls - 1)

\* the second attempt met a challenge page, the bypass failed, and the call
\* sleeps 5.4 s before its third attempt
C32_Witness ==
    \E t \in Tasks : /\ task[t].pc = "sleep"
                     /\ task[t].attempt = 1
                     /\ task[t].bypass_round = 1
                     /\ task[t].bypass_resp = NoResp
                     /\ task[t].error_msg.k = "bypass failed: mirror: ...; html: ..."
                     /\ Len(task[t].sleep_calls) = 2
                     /\ task[t].sleep_calls[1] = 20
                     /\ task[t].sleep_calls[2] = 54
\* C33: the requests a call has sent to the target are as many as the tokens it
\* has taken from the host's limiter, less the one taken for the attempt about
\* to be sent; a call that returned took exactly one token per request, and
\* every step that sends a request is taken with that attempt's token in hand.
C33_TokenPerAttempt ==
    [][\A t \in Tasks :
          /\ (task'[t].pc # "cancelled" =>
                task'[t].acquire_count =
                    task'[t].http_calls + (IF task'[t].pc = "semaphore" THEN 1 ELSE 0))
          /\ (task'[t].pc = "done" => task'[t].acquire_count = task'[t].http_calls)
          /\ (task'[t].http_calls = task[t].http_calls + 1 =>
                /\ task[t].pc = "semaphore"
                /\ task[t].acquire_count = task'[t].http_calls
                /\ task'[t].acquire_count = task[t].acquire_count)]_vars

\* a call that failed after every attempt of the largest retry count, with one
\* token taken for each
C33_Witness ==
    \E t \in Tasks : /\ task[t].pc = "done"
                     /\ retry_count = MaxRetry
                     /\ task[t].http_calls = MaxRetry
                     /\ task[t].acquire_count = MaxRetry
                     /\ task[t].error_msg = Msg("HTTP", 503)
\* the calls whose request to host h is in flight
InFlight(h) == {t \in Tasks : task[t].host = h /\ task[t].pc = "request"}

\* C34: for every host at most 2 requests sent by request() are in flight; the
\* slots of a host's semaphore are held by exactly the calls whose request to
\* that host is in flight (none while a call sleeps, waits or is inside the
\* bypass coordinator); and a call waiting for a slot can take one whenever
\* fewer than 2 requests to its own host are in flight, whatever is in flight
\* to other hosts.
C34_TwoInFlightPerHost ==
    /\ \A h \in Hosts :
          /\ Cardinality(InFlight(h)) <= 2
          /\ cf_host_retry_semaphores[h] = InFlight(h)
    /\ \A t \in Tasks :
          (task[t].pc = "semaphore" /\ Cardinality(InFlight(task[t].host)) < 2)
              => ENABLED SemaphoreAcquire(t)

\* two requests to one host and a third to the other host in flight at once
C34_Witness ==
    /\ Cardinality(InFlight("h1")) = 2
    /\ Cardinality(InFlight("h2")) = 1
\* ------------------------------------------ one call of _call_bypass_mirror
\* the longest chain of redirects the bypass service relays
MaxChain == 10

\* URLs: the target URL reached after `hop` redirects, and the URL of the bypass
\* service that _build_mirror_url makes of it
TargetUrl(hop) == [site |-> "target", hop |-> hop]
build_mirror_url(current_url) == [site |-> "bypass", hop |-> current_url.hop]
NoMirrorUrl == [site |-> "none", hop |-> 0]

\* _bind_response_effective_url: response.url = final_url
bind_response_effective_url(response_url, final_url) == final_url

\* the locals of the call (lines 391-394, 396), the URLs it has requested from
\* the bypass service, and what it returned
MirrorInit ==
    /\ \E m \in AllMethods, a \in BOOLEAN :
          mirror = [pc |-> "request", allow_redirects |-> a,
                    current_method |-> m, current_url |-> TargetUrl(0),
                    redirect_index |-> 0, requested |-> << >>,
                    response |-> NoResp, response_url |-> NoMirrorUrl,
                    error |-> EmptyMsg]
    /\ WebUnused
    /\ EarlierUnused
    /\ refine = Unused
    /\ softpage = Unused
    /\ route = Unused
    /\ download = Unused
    /\ sod = Unused
    /\ volume = Unused
    /\ bypass_log = Unused

\* curl_session.request(current_method, mirror_url, ...) raised: lines 434-447
MirrorRequestRaises ==
    /\ mirror.pc = "request"
    /\ \E e \in Exceptions :
          mirror' = [mirror EXCEPT
                        !.pc = "returned",
                        !.requested = Append(@, build_mirror_url(mirror.current_url)),
                        !.error = Msg("mirror exception", 0)]
    /\ UNCHANGED notmirror

\* curl_session.request returned a response: lines 449-478
MirrorRequestResponds ==
    /\ mirror.pc = "request"
    /\ \E resp \in Responses :
          LET mirror_url == build_mirror_url(mirror.current_url)
              m == MirrorReply(mirror.allow_redirects, mirror.redirect_index, resp)
              sent == [mirror EXCEPT !.requested = Append(@, mirror_url)]
          IN  /\ (IsRedirectResponse(resp) => mirror.redirect_index < MaxChain)
              /\ mirror' =
                    IF m.kind = "response"
                    THEN [sent EXCEPT
                             !.pc = "returned",
                             !.response = Resp(resp, "mirror"),
                             !.response_url =
                                 bind_response_effective_url(mirror_url, mirror.current_url)]
                    ELSE IF m.kind = "error"
                    THEN [sent EXCEPT
                             !.pc = "returned", !.error = m.error,
                             !.current_url =
                                 IF m.error.k = "mirror redirect limit"
                                 THEN TargetUrl(@.hop + 1) ELSE @]
                    ELSE [sent EXCEPT
                             !.current_method =
                                 IF @ \notin {"GET", "HEAD"} /\ resp.status \in {301, 302, 303}
                                 THEN "GET" ELSE @,
                             !.current_url = TargetUrl(@.hop + 1),
                             !.redirect_index = @ + 1]
    /\ UNCHANGED notmirror

MirrorNext == MirrorRequestRaises \/ MirrorRequestResponds

MirrorSpec == MirrorInit /\ [][MirrorNext]_vars

\* every request to the bypass service is answered or fails within its timeout
MirrorFairSpec == MirrorSpec /\ WF_vars(MirrorNext)

\* what holds of a mirror call at every moment
MirrorCallBounded ==
    /\ Len(mirror.requested) <= 9
    /\ mirror.redirect_index <= 8
    /\ (mirror.pc = "request" => Len(mirror.requested) = mirror.redirect_index)
    /\ (mirror.pc = "returned" =>
          /\ Len(mirror.requested) = mirror.redirect_index + 1
          /\ (mirror.response = NoResp <=> mirror.error # EmptyMsg)
          /\ (mirror.current_url.hop > 8 =>
                /\ mirror.response = NoResp
                /\ mirror.error = Msg("mirror redirect limit", 0))
          /\ (mirror.response # NoResp =>
                /\ mirror.response_url.site = "target"
                /\ build_mirror_url(mirror.response_url)
                      = mirror.requested[Len(mirror.requested)]))

\* C35: a mirror call follows at most 8 redirects and sends at most 9 requests
\* to the bypass service; a ninth redirect gives no response and the error
\* "redirect limit exceeded"; a response it returns carries the target URL of
\* the last request sent, not the bypass service's; and the call always returns.
C35_MirrorRedirects ==
    /\ []MirrorCallBounded
    /\ <>(mirror.pc = "returned")

\* a call that followed 8 redirects and returned the answer to its ninth request
C35_Witness ==
    /\ mirror.pc = "returned"
    /\ Len(mirror.requested) = 9
    /\ mirror.response.status = 200
    /\ mirror.response_url = TargetUrl(8)
    /\ mirror.requested[9] = [site |-> "bypass", hop |-> 8]
\* ------------------------- one request() call, its coordinator calls logged
\* bypass_log: the mirror and /html calls that have returned of the coordinator
\* call of the attempt under way, each with the arguments it was made with and
\* its outcome, and what the coordinator returned
NewLog == [calls |-> << >>, returned |-> FALSE, response |-> NoResp]

\* one call on a client with a bypass service, with attempts enough to use
\* every bypass round
CoordInit ==
    /\ \E n \in 1..cf_request_bypass_rounds, m \in AllMethods, a \in BOOLEAN :
          /\ retry_count = n
          /\ task = [t \in Tasks |-> IF t = 1 THEN NewTask("h1", m, a) ELSE Absent]
    /\ cf_bypass_enabled = TRUE
    /\ cf_host_locks = [h \in Hosts |-> NoTask]
    /\ cf_force_refresh_locks = [h \in Hosts |-> NoTask]
    /\ cf_host_retry_semaphores = [h \in Hosts |-> {}]
    /\ cf_host_challenge_hits = [h \in Hosts |-> 0]
    /\ cf_last_bypass_attempt_age = [h \in Hosts |-> Never]
    /\ bypass_log = NewLog
    /\ EarlierUnused
    /\ refine = Unused
    /\ softpage = Unused
    /\ route = Unused
    /\ download = Unused
    /\ sod = Unused
    /\ volume = Unused
    /\ mirror = Unused

\* the log after a call of the coordinator returned to it
Logged(t, endpoint, forced, response, error) ==
    LET returned == task'[t].bypass_round = task[t].bypass_round + 1 IN
    [calls |-> Append(bypass_log.calls,
                      [endpoint |-> endpoint, forced |-> forced, i |-> task[t].i,
                       ok |-> response # NoResp, error |-> error]),
     returned |-> returned,
     response |-> IF returned THEN task'[t].bypass_resp ELSE NoResp]

\* the steps of request() outside the coordinator
CoordOutside(t) ==
    /\ \/ Start(t)
       \/ LimiterAcquire(t)
       \/ SemaphoreAcquire(t)
       \/ AttemptRaises(t)
       \/ AttemptResponds(t)
    /\ UNCHANGED bypass_log

\* the coordinator is entered, or the next attempt begins: a new log
CoordLogCleared(t) ==
    /\ LockAcquire(t) \/ SleepReturns(t)
    /\ bypass_log' = NewLog

\* the first mirror call of the coordinator call, and that of a later iteration
CoordMirrorCalled(t) ==
    /\ CooldownOver(t) \/ BypassSleepReturns(t)
    /\ UNCHANGED bypass_log

CoordMirrorRaises(t) ==
    /\ MirrorRaises(t)
    /\ bypass_log' = Logged(t, "mirror", task[t].bypass_cache, NoResp,
                            Msg("mirror exception", 0))

CoordMirrorResponds(t) ==
    \E m \in CallBypassMirrorResults[task[t].allow_redirects] :
        /\ MirrorReturnsWith(t, m.response, m.error)
        /\ bypass_log' = Logged(t, "mirror", task[t].bypass_cache, m.response, m.error)

CoordHtmlReturns(t) ==
    \E o \in HtmlResults :
        /\ HtmlReturnsWith(t, o)
        /\ bypass_log' = Logged(t, "html", task[t].html_bypass_cache,
                                IF HtmlError(o) = EmptyMsg THEN Resp(o, "html") ELSE NoResp,
                                HtmlError(o))

CoordNext ==
    \/ \E t \in Tasks :
          \/ CoordOutside(t) /\ UNCHANGED notlog
          \/ CoordLogCleared(t) /\ UNCHANGED notlog
          \/ CoordMirrorCalled(t) /\ UNCHANGED notlog
          \/ CoordMirrorRaises(t) /\ UNCHANGED notlog
          \/ CoordMirrorResponds(t) /\ UNCHANGED notlog
          \/ CoordHtmlReturns(t) /\ UNCHANGED notlog
    \/ Tick /\ UNCHANGED <<notlog, bypass_log>>

CoordSpec == CoordInit /\ [][CoordNext]_vars

\* the calls the coordinator call has made: those that returned, then the one
\* under way
CallUnderWay ==
    IF task[1].pc = "mirror"
    THEN <<[endpoint |-> "mirror", forced |-> task[1].bypass_cache, i |-> task[1].i]>>
    ELSE IF task[1].pc = "html"
    THEN <<[endpoint |-> "html", forced |-> task[1].html_bypass_cache, i |-> task[1].i]>>
    ELSE << >>
CallsMade ==
    [k \in 1..Len(bypass_log.calls) |->
        [endpoint |-> bypass_log.calls[k].endpoint, forced |-> bypass_log.calls[k].forced,
         i |-> bypass_log.calls[k].i]] \o CallUnderWay

\* the mirror error names a status that is not retryable
TerminalMirrorError(e) ==
    e.k = "mirror HTTP" /\ e.s \notin {403, 408, 429, 500, 502, 503, 504}

\* the k-th call that returned was a mirror call that failed
MirrorFailedAt(k) ==
    /\ bypass_log.calls[k].endpoint = "mirror"
    /\ ~bypass_log.calls[k].ok

\* /html is called only right after a failed mirror call of a GET request whose
\* error is not a terminal status
HtmlOnlyAfterMirrorOfGet ==
    \A k \in 1..Len(CallsMade) :
        CallsMade[k].endpoint = "html" =>
            /\ task[1].method = "GET"
            /\ k > 1
            /\ MirrorFailedAt(k - 1)
            /\ ~TerminalMirrorError(bypass_log.calls[k - 1].error)

\* C36 as stated: /html only after a failed mirror call of a GET request with
\* no terminal status; and after a failed mirror call of a request of another
\* method, or one that failed with a terminal status, the coordinator calls
\* /html never and returns an error.
C36_Original ==
    /\ HtmlOnlyAfterMirrorOfGet
    /\ \A k \in 1..Len(bypass_log.calls) :
          (MirrorFailedAt(k) /\ (task[1].method # "GET"
                                 \/ TerminalMirrorError(bypass_log.calls[k].error)))
              => /\ \A j \in k..Len(CallsMade) : CallsMade[j].endpoint # "html"
                 /\ (bypass_log.returned => bypass_log.response = NoResp)

\* C36: /html only after a failed mirror call of a GET request with no terminal
\* status; a mirror call that failed with a terminal status is the coordinator
\* call's last call and the coordinator returns an error; for a request of
\* another method, HEAD included, /html is never called and the coordinator
\* returns an error unless a later mirror call of it got a response.
C36_Amended ==
    /\ HtmlOnlyAfterMirrorOfGet
    /\ \A k \in 1..Len(bypass_log.calls) :
          /\ (MirrorFailedAt(k) /\ TerminalMirrorError(bypass_log.calls[k].error))
                => /\ k = Len(CallsMade)
                   /\ bypass_log.returned
                   /\ bypass_log.response = NoResp
          /\ (MirrorFailedAt(k) /\ task[1].method # "GET")
                => /\ \A j \in 1..Len(CallsMade) : CallsMade[j].endpoint = "mirror"
                   /\ (bypass_log.returned =>
                         (bypass_log.response = NoResp
                            <=> ~bypass_log.calls[Len(bypass_log.calls)].ok))

\* a HEAD request: the mirror failed twice with a timeout and a retryable
\* status, /html was not called, and the coordinator returned an error
C36_Witness ==
    /\ task[1].method = "HEAD"
    /\ bypass_log.returned
    /\ bypass_log.response = NoResp
    /\ Len(bypass_log.calls) = 2
    /\ bypass_log.calls[1].error = Msg("mirror exception", 0)
    /\ bypass_log.calls[2].error = Msg("mirror HTTP", 503)
    /\ task[1].error_msg.k = "bypass failed: mirror failed, no /html for method"
\* the first mirror call returned and failed on a challenge page
FirstMirrorChallenged ==
    /\ Len(bypass_log.calls) >= 1
    /\ MirrorFailedAt(1)
    /\ bypass_log.calls[1].error = Msg("mirror challenge", 0)

\* C37: the first call of a coordinator call is a mirror call that is not
\* forced; when it fails on a challenge page the second call is a forced mirror
\* call, and a /html call that follows it in the same iteration is not forced;
\* every mirror call of a later iteration is forced.
C37_ForcedRefreshOrder ==
    /\ Len(CallsMade) >= 1 =>
          CallsMade[1] = [endpoint |-> "mirror", forced |-> FALSE, i |-> 0]
    /\ FirstMirrorChallenged =>
          /\ Len(CallsMade) >= 2
          /\ CallsMade[2] = [endpoint |-> "mirror", forced |-> TRUE, i |-> 0]
          /\ (Len(CallsMade) >= 3 /\ CallsMade[3].i = 0) =>
                CallsMade[3] = [endpoint |-> "html", forced |-> FALSE, i |-> 0]
    /\ \A k \in 1..Len(CallsMade) :
          (CallsMade[k].endpoint = "mirror" /\ CallsMade[k].i > 0) => CallsMade[k].forced

\* the mirror answered with a challenge page, the forced mirror call and the
\* /html call after it failed too, and the forced mirror call of the second
\* iteration is under way
C37_Witness ==
    /\ FirstMirrorChallenged
    /\ Len(bypass_log.calls) = 3
    /\ bypass_log.calls[2].forced /\ ~bypass_log.calls[2].ok
    /\ bypass_log.calls[3].endpoint = "html" /\ ~bypass_log.calls[3].forced
    /\ task[1].pc = "mirror"
    /\ task[1].i = 1
    /\ task[1].bypass_cache

\* ------------------------------------------- results of an empty GatherGroup
\* C38 as stated: once the scope of a GatherGroup has been left, by gather's
\* return or by the group timeout, results can be read and holds one entry per
\* coroutine added, the empty list when none was added.
C38_Original ==
    group.pc \in {"exited", "timed out"} =>
        /\ group.has_results
        /\ Len(group._results) = Len(group._tasks)

\* ------------------------------------ a playlist trailer in the detail merge
\* the slots whose result is a record with a valid title, playlist trailer or
\* not
TitleSlots ==
    {i \in 1..Len(detail.results) :
        detail.results[i].kind = "data" /\ is_valid(detail.results[i].title)}

\* the slots whose result carries an .m3u8 trailer
PlaylistSlots ==
    {i \in 1..Len(detail.results) :
        /\ detail.results[i].kind = "data"
        /\ is_valid(detail.results[i].trailer)
        /\ is_hls_playlist_trailer(detail.results[i].trailer)}

\* the title the loop over group.results[::-1] leaves when every record takes
\* part in it: the one of the first slot that has one
MergedTitle ==
    IF TitleSlots = {} THEN NoTitle
    ELSE detail.results[CHOOSE i \in TitleSlots : \A j \in TitleSlots : i <= j].title

\* C39 as stated: a result whose trailer is an .m3u8 playlist loses its trailer
\* only; its title enters the merged record as the title of a result without
\* a trailer would, so the merge returns a record whose title is the one of the
\* first result in add order that has a title.
C39_Original ==
    (detail.pc = "returned" /\ PlaylistSlots # {}) =>
        /\ detail.res.kind = "data"
        /\ detail.res.title = MergedTitle

\* ------------------------------------------------- a retry count of zero
\* the call went into the loop of request() and came back from it: it was not
\* cancelled and did not end in the outer except clause
LoopReturned(t) ==
    /\ task[t].pc = "done"
    /\ task[t].cancelled_at = ""
    /\ task[t].ret_error # "unknown"

\* C40 as stated: for every retry count of zero or more a request() call sends
\* at least one direct request to the host, and with a retry count of zero it
\* sends exactly one and never sleeps for a retry.
C40_Original ==
    \A t \in Tasks :
        LoopReturned(t) =>
            /\ task[t].http_calls >= 1
            /\ retry_count = 0 =>
                  /\ task[t].http_calls = 1
                  /\ task[t].sleep_calls = << >>

====
